---------------------------- MODULE Spec2Model ----------------------------
(***************************************************************************)
(* A model of the sonarigo sample-playback engine (crate soundfonts):      *)
(*   envelopes.rs   the ADSR envelope tables and the per-voice state       *)
(*                  machine,                                               *)
(*   sample.rs      the polyphonic sample player (Sample, Voice),          *)
(*   sfz/engine.rs  Region (trigger logic) and Engine (event fan-out and   *)
(*                  group broadcast).                                      *)
(*                                                                         *)
(* Numbers.  Times (attack, hold, decay, release) are whole seconds and    *)
(* the sample rate is a whole number, so length * samplerate is exact.     *)
(* A read head (Voice.position, f64) is counted in half frames and a       *)
(* playback ratio frequency / native_frequency in half frames per output   *)
(* frame: the modelled notes lie whole octaves from pitch_keycenter, with  *)
(* pitch_keytrack = 1 and tune = 0, so the ratios are 1/2, 1 and 2.        *)
(* Envelope values (f32) are kept exact as (num / den) * r^pow, r the      *)
(* release step exp(-8 / (samplerate * release)); ampeg_sustain is at its  *)
(* default of 100 %.  A voice gain (f32) is kept as the pair it is         *)
(* computed from: the velocity and the release-trigger decay time.  The    *)
(* random draw (f32 in [0, 1)) and the random ranges are counted in        *)
(* quarters.                                                               *)
(***************************************************************************)
EXTENDS Integers, Sequences, FiniteSets, TLC

VARIABLES
    conf,       \* construction parameters: generator, samplerate, block, frames
    player,     \* a sample::Sample driven directly (player-level runs)
    regions,    \* Engine.regions: a sequence of Region records
    last_call,  \* the operation that produced the current state, its inputs
                \* and what it returned (history, written by every action)
    sfz,        \* parser::parse_sfz_text at work: current_group, regions, the
                \* section being read, the result (parser runs)
    new_engine, \* SonarigoLV2.new_engine: << >> (None) or <<regions>> (host
                \* runs; regions is then SonarigoLV2.engine)
    keyboard    \* the keys as the performer holds them and what became of the
                \* latest NoteOn (history the code does not keep; keyboard runs)

vars == <<conf, player, regions, last_call, sfz, new_engine, keyboard>>

\* ------------------------------------------------------------------ bounds

\* The most voices a player holds in a run (Vec<Voice> is unbounded).
MaxVoices == 2

\* The most frames a region's clock time_since_note_on counts in a run.
MaxTime == 4

\* ------------------------------------------------------------ small helpers

Min(a, b) == IF a < b THEN a ELSE b

Max(a, b) == IF a > b THEN a ELSE b

RECURSIVE GCD(_, _)
GCD(a, b) == IF b = 0 THEN a ELSE GCD(b, a % b)

\* ceil(x / d) for x >= 0, d > 0
CeilDiv(x, d) == (x + d - 1) \div d

\* --------------------------------------------------------- envelope values

One == [num |-> 1, den |-> 1, pow |-> 0]

Zero == [num |-> 0, den |-> 1, pow |-> 0]

Frac(n, d) ==
    IF n = 0 THEN Zero
    ELSE [num |-> n \div GCD(n, d), den |-> d \div GCD(n, d), pow |-> 0]

\* ------------------------------------------------------------ envelopes.rs

\* Generator::default: attack, hold, decay, release = 0 (sustain = 1.0)
DefaultGenerator == [attack |-> 0, hold |-> 0, decay |-> 0, release |-> 0]

\* calc_needed_samples with one block behind the last started one
calc_needed_samples_one_pad(length, samplerate, max_block_length) ==
    LET needed_samples == length * samplerate
    IN  ((needed_samples \div max_block_length) + 1) * max_block_length

calc_needed_samples(length, samplerate, max_block_length) ==
    LET needed_samples == length * samplerate
    IN  ((needed_samples \div max_block_length) + 2) * max_block_length

ads_envelope_len(c) ==
    calc_needed_samples(c.gen.attack + c.gen.hold + 2 * c.gen.decay,
                        c.samplerate, c.max_block_length)

sustain_envelope_len(c) == c.max_block_length

release_envelope_len(c) ==
    calc_needed_samples(2 * c.gen.release, c.samplerate, c.max_block_length)

\* attack_decay_envelope[i], sustain = 1.0: t / attack while t < attack, the
\* hold at 1.0, then sustain + last with last = (1 - sustain) * step^k = 0.
ads_envelope(c, i) ==
    IF i < c.gen.attack * c.samplerate
    THEN Frac(i, c.gen.attack * c.samplerate)
    ELSE One

sustain_envelope(c, i) == One

\* release_envelope[i] = sustain * release_step^(i+1); release = 0 makes the
\* step exp(-inf) = 0.
release_envelope(c, i) ==
    IF c.gen.release = 0 THEN Zero
    ELSE [num |-> 1, den |-> 1, pow |-> i + 1]

\* release_envelope[i] > dB_to_gain(-160.0) = 1e-8, that is
\* 8 * (i + 1) / (samplerate * release) < ln(1e8) = 18.4206...
release_above_floor(c, i) ==
    /\ c.gen.release > 0
    /\ 8000 * (i + 1) < 18421 * c.samplerate * c.gen.release

AttackDecay(pos) == [tag |-> "AttackDecay", pos |-> pos]

Sustain == [tag |-> "Sustain", pos |-> 0]

Release(pos) == [tag |-> "Release", pos |-> pos]

Inactive == [tag |-> "Inactive", pos |-> 0]

is_active(state) == state.tag # "Inactive"

is_releasing(state) == state.tag = "Release"

\* ADSREnvelope::active_envelope: the table and the index to read from.
\* Inactive is answered with the sustain table (and an error! log line).
active_envelope(state) ==
    CASE state.tag = "AttackDecay" -> [table |-> "attack_decay", pos |-> state.pos]
      [] state.tag = "Release"     -> [table |-> "release", pos |-> state.pos]
      [] state.tag = "Sustain"     -> [table |-> "sustain", pos |-> 0]
      [] OTHER                     -> [table |-> "sustain", pos |-> 0]

envelope_len(c, table) ==
    CASE table = "attack_decay" -> ads_envelope_len(c)
      [] table = "release"      -> release_envelope_len(c)
      [] OTHER                  -> sustain_envelope_len(c)

envelope_at(c, table, i) ==
    CASE table = "attack_decay" -> ads_envelope(c, i)
      [] table = "release"      -> release_envelope(c, i)
      [] OTHER                  -> sustain_envelope(c, i)

\* update_state that falls back to Sustain when the release has run out
update_state_release_to_sustain(c, state, new_pos) ==
    CASE state.tag = "AttackDecay" ->
            IF new_pos < ads_envelope_len(c) - c.max_block_length
            THEN AttackDecay(new_pos)
            ELSE Sustain
      [] state.tag = "Release" ->
            IF /\ new_pos < release_envelope_len(c) - c.max_block_length
               /\ release_above_floor(c, new_pos)
            THEN Release(new_pos)
            ELSE Sustain
      [] OTHER -> state

update_state(c, state, new_pos) ==
    CASE state.tag = "AttackDecay" ->
            IF new_pos < ads_envelope_len(c) - c.max_block_length
            THEN AttackDecay(new_pos)
            ELSE Sustain
      [] state.tag = "Release" ->
            IF /\ new_pos < release_envelope_len(c) - c.max_block_length
               /\ release_above_floor(c, new_pos)
            THEN Release(new_pos)
            ELSE Inactive
      [] OTHER -> state


\* --------------------------------------------------------------- sample.rs

\* Voice::new.  id is the voice's identity across steps (the least number no
\* voice of the player uses); the code knows a voice by its place in the Vec.
Voice(id, note, frequency, gain) ==
    [id |-> id, note |-> note, frequency |-> frequency, gain |-> gain,
     position |-> 0,
     envelope_state |-> AttackDecay(0),
     last_envelope_gain |-> One,
     release_start_gain |-> One]

\* Sample::new: the buffer holds the frames (two floats each) and is padded
\* to reserve_frames.
Sample(c) ==
    LET reserve_frames ==
            ((c.frames \div c.max_block_length) + 2) * c.max_block_length
    IN  [voices |-> << >>, sample_data_len |-> reserve_frames * 2]

real_sample_length(c) == c.frames

is_playing(s) == s.voices # << >>

is_playing_note(s, note) ==
    \E i \in DOMAIN s.voices :
        s.voices[i].note = note /\ ~is_releasing(s.voices[i].envelope_state)

is_releasing_note(s, note) ==
    \E i \in DOMAIN s.voices :
        s.voices[i].note = note /\ is_releasing(s.voices[i].envelope_state)

\* the body of the loop of Sample::note_off, for one voice
note_off_voice(v, note) ==
    IF v.note = note /\ ~is_releasing(v.envelope_state)
    THEN [v EXCEPT !.envelope_state = Release(0),
                   !.release_start_gain = v.last_envelope_gain]
    ELSE v

note_off(s, note) ==
    [s EXCEPT !.voices = [i \in DOMAIN s.voices |-> note_off_voice(s.voices[i], note)]]

FreeId(voices) ==
    CHOOSE k \in 1..(Len(voices) + 1) :
        /\ \A i \in DOMAIN voices : voices[i].id # k
        /\ \A j \in 1..(k - 1) : \E i \in DOMAIN voices : voices[i].id = j

\* note_on that appends the new voice and leaves the earlier ones alone
note_on_push_only(s, note, frequency, gain) ==
    [s EXCEPT !.voices =
        Append(s.voices, Voice(FreeId(s.voices), note, frequency, gain))]

note_on(s, note, frequency, gain) ==
    LET off == note_off(s, note)
    IN  [off EXCEPT !.voices =
            Append(off.voices, Voice(FreeId(off.voices), note, frequency, gain))]

\* the body of the loop of Sample::all_notes_off, for one voice
all_notes_off_voice(v) ==
    [v EXCEPT !.envelope_state = Release(0),
              !.release_start_gain = v.last_envelope_gain]

all_notes_off(s) ==
    [s EXCEPT !.voices = [i \in DOMAIN s.voices |-> all_notes_off_voice(s.voices[i])]]

\* (voice.position + max_block_length * ratio).ceil() as usize + 5
needed_sample_length(c, v) ==
    CeilDiv(v.position + c.max_block_length * v.frequency, 2) + 5

\* the buffer kept at the length Sample::new gave it
resized_len_as_built(c, len, v) == len

\* the resize at the head of the loop body of Sample::process
resized_len(c, len, v) ==
    IF needed_sample_length(c, v) * 2 >= len
    THEN needed_sample_length(c, v) * 2
    ELSE len

\* the loop body of Sample::process for one voice and a block of n frames
process_voice(c, v, n) ==
    LET env          == active_envelope(v.envelope_state)
        env_position == env.pos + n
        last         == IF env_position < envelope_len(c, env.table)
                        THEN envelope_at(c, env.table, env_position)
                        ELSE envelope_at(c, env.table, env_position - 1)
    IN  [v EXCEPT !.position = v.position + n * v.frequency,
                  !.last_envelope_gain = last,
                  !.envelope_state = update_state(c, v.envelope_state, env_position)]

\* retain that never looks at the position
retained_while_active(c, v) == is_active(v.envelope_state)

\* retain without the is_active test
retained_any_state(c, v) == v.position < 2 * real_sample_length(c)

\* voices.retain(|voice| voice.position < real_sample_length
\*                       && voice.envelope_state.is_active())
retained(c, v) ==
    /\ v.position < 2 * real_sample_length(c)
    /\ is_active(v.envelope_state)

\* retain that drops no voice
retain_keeps_all(c, voices) == voices

RECURSIVE retain(_, _)
retain(c, voices) ==
    IF voices = << >> THEN << >>
    ELSE IF retained(c, Head(voices))
         THEN <<Head(voices)>> \o retain(c, Tail(voices))
         ELSE retain(c, Tail(voices))

RECURSIVE grown_len(_, _, _)
grown_len(c, len, voices) ==
    IF voices = << >> THEN len
    ELSE grown_len(c, resized_len(c, len, Head(voices)), Tail(voices))

\* the indices of the envelope table read in the loop of Sample::process:
\* envelope[env_position] for each of the n frames
envelope_reads(v, n) ==
    {active_envelope(v.envelope_state).pos + k : k \in 0..(n - 1)}

\* the index of the default handed to unwrap_or after the loop,
\* envelope[env_position - 1]: an argument, evaluated before the call
\* whatever get(env_position) answers
last_gain_default_read(v, n) == active_envelope(v.envelope_state).pos + n - 1

\* the indices cubic reads at pos in a buffer of len floats
cubic_reads(len, pos) == {((pos + len) - 2) % len, pos, pos + 2, pos + 4}

\* the indices of sample_data read in the loop of Sample::process:
\* cubic at 2 * sample_pos and 2 * sample_pos + 1 for each of the n frames
sample_reads(len, v, n) ==
    UNION {cubic_reads(len, 2 * ((v.position + k * v.frequency) \div 2))
               \cup cubic_reads(len, 2 * ((v.position + k * v.frequency) \div 2) + 1)
           : k \in 0..(n - 1)}

\* the loop body of Sample::process indexes within its tables (usize
\* indices: none below 0); len is the buffer's length when the voice's turn
\* comes
process_voice_in_range(c, len, v, n) ==
    LET table == active_envelope(v.envelope_state).table
    IN  /\ \A i \in envelope_reads(v, n) : i < envelope_len(c, table)
        /\ last_gain_default_read(v, n) >= 0
        /\ last_gain_default_read(v, n) < envelope_len(c, table)
        /\ \A i \in sample_reads(resized_len(c, len, v), v, n) :
               i < resized_len(c, len, v)
        /\ ads_envelope_len(c) >= c.max_block_length
        /\ release_envelope_len(c) >= c.max_block_length

\* Sample::process returns for a block of n frames: no index panics
process_completes(c, s, n) ==
    \A i \in DOMAIN s.voices :
        process_voice_in_range(
            c, grown_len(c, s.sample_data_len, SubSeq(s.voices, 1, i - 1)),
            s.voices[i], n)

process(c, s, n) ==
    [voices |-> retain(c, [i \in DOMAIN s.voices |-> process_voice(c, s.voices[i], n)]),
     sample_data_len |-> grown_len(c, s.sample_data_len, s.voices)]

\* the envelope value Sample::process applies to frame k (from 0) of a block
\* for voice v; a frame read from the zero padding behind the sample's
\* frames (Sample::new, the resize of process) is silent whatever the value
frame_gain(c, v, k) ==
    IF (v.position + k * v.frequency) \div 2 >= real_sample_length(c)
    THEN Zero
    ELSE envelope_at(c, active_envelope(v.envelope_state).table,
                     active_envelope(v.envelope_state).pos + k)

\* the envelope values of the n frames of one process call for the voice
\* known as id; a voice that is gone adds nothing to the output
block_gains(c, s, id, n) ==
    IF \E i \in DOMAIN s.voices : s.voices[i].id = id
    THEN LET v == s.voices[CHOOSE i \in DOMAIN s.voices : s.voices[i].id = id]
         IN  [k \in 1..n |-> frame_gain(c, v, k - 1)]
    ELSE [k \in 1..n |-> Zero]

\* the envelope values of N consecutive process calls of K frames
RECURSIVE repeated_gains(_, _, _, _, _)
repeated_gains(c, s, id, N, K) ==
    IF N = 0 THEN << >>
    ELSE block_gains(c, s, id, K)
             \o repeated_gains(c, process(c, s, K), id, N - 1, K)

\* the player after N consecutive process calls of K frames
RECURSIVE repeated_process(_, _, _, _)
repeated_process(c, s, N, K) ==
    IF N = 0 THEN s ELSE repeated_process(c, process(c, s, K), N - 1, K)

\* ----------------------------------------------------- sfz/engine.rs: ranges

\* wmidi::Velocity::MAX
VelocityMax == 127

\* the numbers of the sustain pedal controller and of its "pushed" threshold
SustainPedalCC == 64

SustainPedalThreshold == 64

\* Option::None of a range bound
None == -1

\* covering with the upper bound left out
VelRange_covering_below_hi(range, vel) == vel >= range.lo /\ vel < range.hi

\* VelRange::covering
VelRange_covering(range, vel) == vel >= range.lo /\ vel <= range.hi

\* covering that takes a range without bounds for the whole keyboard
NoteRange_covering_open(range, note) ==
    IF range.lo # None /\ range.hi # None
    THEN note >= range.lo /\ note <= range.hi
    ELSE TRUE

\* NoteRange::covering: false unless both bounds are set
NoteRange_covering(range, note) ==
    IF range.lo # None /\ range.hi # None
    THEN note >= range.lo /\ note <= range.hi
    ELSE FALSE

\* covering with the upper bound let in
RandomRange_covering_closed(range, v) ==
    range.hi = range.lo \/ (v >= range.lo /\ v <= range.hi)

\* RandomRange::covering
RandomRange_covering(range, v) ==
    range.hi = range.lo \/ (v >= range.lo /\ v < range.hi)

\* covering that takes a missing bound for no bound
ControlValRange_covering_open(range, val) ==
    /\ (range.lo # None => val >= range.lo)
    /\ (range.hi # None => val <= range.hi)

\* ControlValRange::covering: false unless both bounds are set
ControlValRange_covering(range, val) ==
    IF range.lo # None /\ range.hi # None
    THEN val >= range.lo /\ val <= range.hi
    ELSE FALSE

\* RegionData::default, with the fields the triggers read
DefaultRegionData ==
    [key_range        |-> [lo |-> 0, hi |-> 127],
     vel_range        |-> [lo |-> 0, hi |-> 127],
     random_range     |-> [lo |-> 0, hi |-> 0],
     on_ccs           |-> << >>,
     pitch_keycenter  |-> 60,
     amp_veltrack     |-> 100,
     rt_decay         |-> 0,
     trigger          |-> "Attack",
     group            |-> 0,
     off_by           |-> 0]

\* ----------------------------------------------------- sfz/engine.rs: Region

NoGain == [vel |-> VelocityMax, rt |-> 0]

\* Region::new.  since_last_note_on, accepted_note_ons and held_by_pedal are
\* history fields the code does not have: the frames processed since
\* last_note_on was last stored, the latest <<note, velocity>> stored in
\* last_note_on for each note, and the ids of the voices that were sounding a note when its
\* NoteOff came in under the latched pedal (emptied when the pedal goes down
\* again).
Region(params, c) ==
    [params |-> params,
     sample |-> Sample(c),
     gain |-> NoGain,
     last_note_on |-> << >>,
     notes_for_release_trigger |-> {},
     other_notes_on |-> {},
     time_since_note_on |-> 0,
     since_last_note_on |-> 0,
     accepted_note_ons |-> {},
     held_by_pedal |-> {},
     sustain_pedal_pushed |-> FALSE,
     once_immune_against_group_events |-> FALSE]

\* frequency / native_frequency of a note, in half frames per output frame:
\* native * (f(note) / native)^pitch_keytrack * 2^(tune / 12) with
\* pitch_keytrack = 1, tune = 0 is f(note), and f doubles every 12 notes.
note_ratio(params, note) ==
    CASE note - params.pitch_keycenter = 0   -> 2
      [] note - params.pitch_keycenter = 12  -> 4
      [] note - params.pitch_keycenter = -12 -> 1

\* Region::process: the clock runs in frames (seconds = frames / samplerate)
Region_process(c, r, n) ==
    LET clocked == [r EXCEPT !.time_since_note_on = r.time_since_note_on + n,
                             !.since_last_note_on =
                                 IF r.last_note_on = << >> THEN 0 ELSE @ + n]
    IN  IF ~is_playing(r.sample) THEN clocked
        ELSE LET processed == process(c, r.sample, n)
             IN  [clocked EXCEPT
                     !.sample = processed,
                     !.held_by_pedal =
                         @ \cap {processed.voices[k].id :
                                    k \in DOMAIN processed.voices}]

\* Region::note_on.  The gain dB_to_gain(volume + velocity_db * |amp_veltrack|
\* + rt_decay) is kept as the velocity that enters velocity_db and the decay
\* time_since_note_on * rt_decay (dB * frames per second).
Region_note_on(r, note, velocity) ==
    LET vel  == IF r.params.amp_veltrack < 0 THEN VelocityMax - velocity ELSE velocity
        rt   == IF r.params.trigger \in {"Release", "ReleaseKey"}
                THEN r.time_since_note_on * r.params.rt_decay
                ELSE 0
        gain == [vel |-> vel, rt |-> rt]
    IN  [r EXCEPT !.gain = gain,
                  !.time_since_note_on = 0,
                  !.sample = note_on(r.sample, note, note_ratio(r.params, note), gain)]

Region_note_off(r, note) == [r EXCEPT !.sample = note_off(r.sample, note)]

\* the loop of Region::sustain_pedal over notes_for_release_trigger, in the
\* order the set is iterated in
RECURSIVE release_pending(_, _)
release_pending(r, order) ==
    IF order = << >> THEN r
    ELSE release_pending(Region_note_off(r, Head(order)), Tail(order))

\* sustain_pedal that sounds a ReleaseKey region as it sounds a Release one
sustain_pedal_any_release(r, pushed, order) ==
    LET latched == [r EXCEPT !.sustain_pedal_pushed = pushed,
                             !.held_by_pedal =
                                 IF pushed /\ ~r.sustain_pedal_pushed
                                 THEN {} ELSE @]
    IN  IF pushed THEN latched
        ELSE IF r.params.trigger \in {"Release", "ReleaseKey"}
             THEN IF latched.last_note_on = << >> THEN latched
                  ELSE Region_note_on(latched, latched.last_note_on[1], latched.last_note_on[2])
             ELSE [release_pending(latched,
                       SelectSeq(order, LAMBDA n : n \in r.notes_for_release_trigger))
                      EXCEPT !.notes_for_release_trigger = {}]

\* Region::sustain_pedal; order lists the notes in the order the HashSet
\* notes_for_release_trigger hands them out
sustain_pedal(r, pushed, order) ==
    LET latched == [r EXCEPT !.sustain_pedal_pushed = pushed,
                             !.held_by_pedal =
                                 IF pushed /\ ~r.sustain_pedal_pushed
                                 THEN {} ELSE @]
    IN  IF pushed THEN latched
        ELSE IF r.params.trigger = "Release"
             THEN IF latched.last_note_on = << >> THEN latched
                  ELSE Region_note_on(latched, latched.last_note_on[1], latched.last_note_on[2])
             ELSE [release_pending(latched,
                       SelectSeq(order, LAMBDA n : n \in r.notes_for_release_trigger))
                      EXCEPT !.notes_for_release_trigger = {}]

\* Region::handle_note_on
handle_note_on(r, note, velocity) ==
    IF is_playing_note(r.sample, note) /\ ~is_releasing_note(r.sample, note)
    THEN [r |-> r, fired |-> FALSE]
    ELSE IF ~NoteRange_covering(r.params.key_range, note)
    THEN [r |-> [r EXCEPT !.other_notes_on = @ \cup {note}], fired |-> FALSE]
    ELSE IF ~VelRange_covering(r.params.vel_range, velocity)
    THEN [r |-> r, fired |-> FALSE]
    ELSE IF r.params.trigger \in {"Release", "ReleaseKey"}
    THEN [r |-> [r EXCEPT !.last_note_on = <<note, velocity>>,
                          !.since_last_note_on = 0,
                          !.accepted_note_ons =
                              {nv \in @ : nv[1] # note} \cup {<<note, velocity>>}],
          fired |-> FALSE]
    ELSE IF r.params.trigger = "First" /\ r.other_notes_on # {}
    THEN [r |-> r, fired |-> FALSE]
    ELSE IF r.params.trigger = "Legato" /\ r.other_notes_on = {}
    THEN [r |-> r, fired |-> FALSE]
    ELSE [r |-> Region_note_on(r, note, velocity), fired |-> TRUE]

\* handle_note_off that does not look at the pedal
handle_note_off_no_pedal(r, note) ==
    IF ~NoteRange_covering(r.params.key_range, note)
    THEN [r |-> [r EXCEPT !.other_notes_on = @ \ {note}], fired |-> FALSE]
    ELSE IF r.params.trigger \in {"Release", "ReleaseKey"}
    THEN IF r.last_note_on # << >>
         THEN [r |-> Region_note_on(r, r.last_note_on[1], r.last_note_on[2]),
               fired |-> TRUE]
         ELSE [r |-> r, fired |-> FALSE]
    ELSE [r |-> Region_note_off(r, note), fired |-> FALSE]

\* Region::handle_note_off
handle_note_off(r, note) ==
    IF ~NoteRange_covering(r.params.key_range, note)
    THEN [r |-> [r EXCEPT !.other_notes_on = @ \ {note}], fired |-> FALSE]
    ELSE IF r.params.trigger \in {"Release", "ReleaseKey"}
    THEN IF r.last_note_on # << >>
         THEN [r |-> Region_note_on(r, r.last_note_on[1], r.last_note_on[2]),
               fired |-> TRUE]
         ELSE [r |-> r, fired |-> FALSE]
    ELSE IF ~r.sustain_pedal_pushed
    THEN [r |-> Region_note_off(r, note), fired |-> FALSE]
    ELSE [r |-> [r EXCEPT !.notes_for_release_trigger = @ \cup {note}],
          fired |-> FALSE]

\* on_ccs.get(&cnum): the range stored for a controller, << >> when none
on_ccs_get(params, cnum) ==
    IF cnum \in DOMAIN params.on_ccs THEN <<params.on_ccs[cnum]>> ELSE << >>

\* Region::handle_control_event
handle_control_event(r, cnum, cval, order) ==
    LET pedalled == IF cnum = SustainPedalCC
                    THEN sustain_pedal(r, cval >= SustainPedalThreshold, order)
                    ELSE r
        range    == on_ccs_get(r.params, cnum)
    IN  IF range # << >> /\ ControlValRange_covering(range[1], cval)
        THEN [r |-> Region_note_on(pedalled, r.params.pitch_keycenter, VelocityMax),
              fired |-> TRUE]
        ELSE [r |-> pedalled, fired |-> FALSE]

\* the history of a NoteOff: under the latched pedal, the voices of a region
\* that is not release-triggered that sound the note are held by the pedal
note_off_seen(r, note) ==
    IF r.sustain_pedal_pushed /\ r.params.trigger \notin {"Release", "ReleaseKey"}
    THEN [r EXCEPT !.held_by_pedal =
             @ \cup {r.sample.voices[k].id : k \in
                        {k \in DOMAIN r.sample.voices :
                            /\ r.sample.voices[k].note = note
                            /\ r.sample.voices[k].envelope_state.tag # "Release"}}]
    ELSE r

\* pass_midi_msg that leaves the immunity flag as it finds it
pass_midi_msg_keep_flag(r, msg, random_value, order) ==
    CASE msg.type = "NoteOn" ->
            IF RandomRange_covering(r.params.random_range, random_value)
            THEN handle_note_on(r, msg.a, msg.b)
            ELSE [r |-> r, fired |-> FALSE]
      [] msg.type = "NoteOff" -> handle_note_off(note_off_seen(r, msg.a), msg.a)
      [] msg.type = "ControlChange" ->
            handle_control_event(r, msg.a, msg.b, order)
      [] OTHER -> [r |-> r, fired |-> FALSE]

\* Region::pass_midi_msg
pass_midi_msg(r, msg, random_value, order) ==
    LET cleared == [r EXCEPT !.once_immune_against_group_events = FALSE]
    IN  CASE msg.type = "NoteOn" ->
                IF RandomRange_covering(r.params.random_range, random_value)
                THEN handle_note_on(cleared, msg.a, msg.b)
                ELSE [r |-> cleared, fired |-> FALSE]
          [] msg.type = "NoteOff" ->
                handle_note_off(note_off_seen(cleared, msg.a), msg.a)
          [] msg.type = "ControlChange" ->
                handle_control_event(cleared, msg.a, msg.b, order)
          [] OTHER -> [r |-> cleared, fired |-> FALSE]

\* Region::group: hands out params.group and sets the immunity flag
Region_group(r) == [r EXCEPT !.once_immune_against_group_events = TRUE]

\* group_activated that looks at the region's own group only
group_activated_own_group(r, group) ==
    IF r.once_immune_against_group_events THEN r
    ELSE IF group = r.params.group
    THEN [r EXCEPT !.sample = all_notes_off(r.sample)]
    ELSE r

\* Region::group_activated
group_activated(r, group) ==
    IF r.once_immune_against_group_events THEN r
    ELSE IF group = r.params.group \/ group = r.params.off_by
    THEN [r EXCEPT !.sample = all_notes_off(r.sample)]
    ELSE r

\* ----------------------------------------------------- sfz/engine.rs: Engine

\* Engine::from_region_array
from_region_array(c) == [i \in DOMAIN c.instrument |-> Region(c.instrument[i], c)]

\* every order a HashSet may hand its members out in
RECURSIVE SetOrders(_)
SetOrders(S) ==
    IF S = {} THEN {<< >>}
    ELSE UNION {{<<x>> \o rest : rest \in SetOrders(S \ {x})} : x \in S}

PassCall(i) == [call |-> "pass_midi_msg", region |-> i, group |-> 0]

GroupCall(i, group) == [call |-> "group_activated", region |-> i, group |-> group]

\* pass_region without the group > 0 filter
pass_region_any_group(st, i, msg, random_value, order) ==
    LET res   == pass_midi_msg(st.regions[i], msg, random_value, order)
        group == res.r.params.group
    IN  IF res.fired
        THEN [regions   |-> [st.regions EXCEPT ![i] = Region_group(res.r)],
              activated |-> st.activated \cup {group},
              fired     |-> st.fired \cup {i},
              calls     |-> Append(st.calls, PassCall(i))]
        ELSE [regions   |-> [st.regions EXCEPT ![i] = res.r],
              activated |-> st.activated,
              fired     |-> st.fired,
              calls     |-> Append(st.calls, PassCall(i))]

\* one round of the first loop of Engine::midi_event, for region i
pass_region(st, i, msg, random_value, order) ==
    LET res   == pass_midi_msg(st.regions[i], msg, random_value, order)
        group == res.r.params.group
    IN  IF res.fired
        THEN [regions   |-> [st.regions EXCEPT ![i] = Region_group(res.r)],
              activated |-> IF group > 0 THEN st.activated \cup {group} ELSE st.activated,
              fired     |-> st.fired \cup {i},
              calls     |-> Append(st.calls, PassCall(i))]
        ELSE [regions   |-> [st.regions EXCEPT ![i] = res.r],
              activated |-> st.activated,
              fired     |-> st.fired,
              calls     |-> Append(st.calls, PassCall(i))]

\* the inner loop of the second loop of Engine::midi_event, from region i on
RECURSIVE activate_regions(_, _, _)
activate_regions(st, group, i) ==
    IF i > Len(st.regions) THEN st
    ELSE activate_regions(
            [st EXCEPT !.regions[i] = group_activated(st.regions[i], group),
                       !.calls = Append(st.calls, GroupCall(i, group))],
            group, i + 1)

\* the first loop with the group broadcast made inside it, as soon as a
\* region has fired
RECURSIVE pass_regions_eager(_, _, _, _, _)
pass_regions_eager(st, i, msg, random_value, order) ==
    IF i > Len(st.regions) THEN st
    ELSE LET one   == pass_region(st, i, msg, random_value, order)
             group == one.regions[i].params.group
         IN  pass_regions_eager(
                 IF i \in one.fired /\ group > 0
                 THEN activate_regions(one, group, 1)
                 ELSE one,
                 i + 1, msg, random_value, order)

\* the first loop of Engine::midi_event, from region i on
RECURSIVE pass_regions(_, _, _, _, _)
pass_regions(st, i, msg, random_value, order) ==
    IF i > Len(st.regions) THEN st
    ELSE pass_regions(pass_region(st, i, msg, random_value, order),
                      i + 1, msg, random_value, order)

\* the second loop of Engine::midi_event, over the groups in the order the
\* HashSet activated_groups hands them out
\* the second loop left after its first round
activate_first_group(st, group_order) ==
    IF group_order = << >> THEN st
    ELSE activate_regions(st, Head(group_order), 1)

RECURSIVE activate_groups(_, _)
activate_groups(st, group_order) ==
    IF group_order = << >> THEN st
    ELSE activate_groups(activate_regions(st, Head(group_order), 1), Tail(group_order))

\* the state Engine::midi_event starts its loops from
midi_event_start(rs) == [regions |-> rs, activated |-> {}, fired |-> {}, calls |-> << >>]

\* Engine::midi_event, up to the end of its first loop
midi_event_passed(rs, msg, random_value, order) ==
    pass_regions(midi_event_start(rs), 1, msg, random_value, order)

\* Engine::midi_event
midi_event(rs, msg, random_value, order, group_order) ==
    activate_groups(midi_event_passed(rs, msg, random_value, order), group_order)

\* Engine::process returns: the process of every region's sample does
Engine_process_completes(c, rs, n) ==
    \A i \in DOMAIN rs : process_completes(c, rs[i].sample, n)

\* Engine::process (the output buffers are zeroed, then every region mixes in)
Engine_process(c, rs, n) == [i \in DOMAIN rs |-> Region_process(c, rs[i], n)]

\* ------------------------------------------------------------ the machines

NoteOn(note, vel) == [type |-> "NoteOn", a |-> note, b |-> vel]

NoteOff(note, vel) == [type |-> "NoteOff", a |-> note, b |-> vel]

ControlChange(cnum, cval) == [type |-> "ControlChange", a |-> cnum, b |-> cval]

NoMsg == [type |-> "None", a |-> 0, b |-> 0]

\* what last_call records: the operation, its message (or arguments), the
\* random draw, and from Engine::midi_event the regions that returned true,
\* the groups iterated and the calls made on the regions, in order
Call(op, msg, random_value, fired, group_order, calls) ==
    [op |-> op, msg |-> msg, random_value |-> random_value,
     fired |-> fired, group_order |-> group_order, calls |-> calls]

PlainCall(op, msg) == Call(op, msg, 0, {}, << >>, << >>)

\* no text is being parsed
NoText == << >>

\* no keyboard is being watched
NoKeyboard == << >>

\* ---- the player driven directly: sample::Sample

PlayerConfs ==
    {[gen |-> g, samplerate |-> 1, max_block_length |-> 2, frames |-> 2,
      instrument |-> << >>, notes |-> {60, 72}, vels |-> {127},
      ccs |-> {}, draws |-> {0}]
        : g \in {DefaultGenerator,
                 [attack |-> 1, hold |-> 0, decay |-> 0, release |-> 1]}}

InitPlayer ==
    /\ conf \in PlayerConfs
    /\ player = Sample(conf)
    /\ regions = << >>
    /\ last_call = PlainCall("new", NoMsg)
    /\ sfz = NoText
    /\ new_engine = << >>
    /\ keyboard = NoKeyboard

PlayerNoteOn ==
    \E note \in conf.notes, frequency \in {1, 4, 8}, vel \in conf.vels :
        /\ Len(player.voices) < MaxVoices
        /\ player' = note_on(player, note, frequency, [vel |-> vel, rt |-> 0])
        /\ last_call' = PlainCall("note_on", NoMsg)
        /\ UNCHANGED <<conf, regions, sfz, new_engine, keyboard>>

PlayerNoteOff ==
    \E note \in conf.notes :
        /\ player' = note_off(player, note)
        /\ last_call' = PlainCall("note_off", NoMsg)
        /\ UNCHANGED <<conf, regions, sfz, new_engine, keyboard>>

PlayerAllNotesOff ==
    /\ player' = all_notes_off(player)
    /\ last_call' = PlainCall("all_notes_off", NoMsg)
    /\ UNCHANGED <<conf, regions, sfz, new_engine, keyboard>>

PlayerProcess ==
    \E n \in 0..conf.max_block_length :
        /\ process_completes(conf, player, n)
        /\ player' = process(conf, player, n)
        /\ last_call' = PlainCall("process", NoMsg)
        /\ UNCHANGED <<conf, regions, sfz, new_engine, keyboard>>

NextPlayer ==
    \/ PlayerNoteOn
    \/ PlayerNoteOff
    \/ PlayerAllNotesOff
    \/ PlayerProcess

SpecPlayer == InitPlayer /\ [][NextPlayer]_vars

\* ---- the engine: sfz::engine::Engine

\* two regions of one group whose keys overlap
GroupInstrument ==
    << [DefaultRegionData EXCEPT !.key_range = [lo |-> 48, hi |-> 60],
                                 !.group = 1],
       [DefaultRegionData EXCEPT !.key_range = [lo |-> 60, hi |-> 60],
                                 !.group = 1] >>

\* a region of group 1 that group 2 silences, and a region of group 2 that a
\* controller triggers as well
OffByInstrument ==
    << [DefaultRegionData EXCEPT !.key_range = [lo |-> 48, hi |-> 60],
                                 !.group = 1, !.off_by = 2],
       [DefaultRegionData EXCEPT !.key_range = [lo |-> 60, hi |-> 60],
                                 !.group = 2,
                                 !.on_ccs = (23 :> [lo |-> 0, hi |-> 127])] >>

\* a region of no group beside a region of group 1
NoGroupInstrument ==
    << [DefaultRegionData EXCEPT !.key_range = [lo |-> 48, hi |-> 60]],
       [DefaultRegionData EXCEPT !.key_range = [lo |-> 60, hi |-> 60],
                                 !.group = 1, !.off_by = 1] >>

\* the draws are counted in quarters: Quarters stands for 1.0
Quarters == 4

\* two regions of one key and one controller that share the draws between
\* them (engine.rs test trigger_rand)
RandomPairInstrument ==
    << [DefaultRegionData EXCEPT !.key_range = [lo |-> 60, hi |-> 60],
                                 !.random_range = [lo |-> 0, hi |-> 2],
                                 !.on_ccs = (23 :> [lo |-> 0, hi |-> 127])],
       [DefaultRegionData EXCEPT !.key_range = [lo |-> 60, hi |-> 60],
                                 !.random_range = [lo |-> 2, hi |-> Quarters],
                                 !.on_ccs = (23 :> [lo |-> 0, hi |-> 127])] >>

EngineConfs ==
    {[gen |-> DefaultGenerator, samplerate |-> 1, max_block_length |-> 1,
      max_voices |-> MaxVoices,
      frames |-> 2, instrument |-> GroupInstrument,
      notes |-> {48, 60}, vels |-> {127},
      ccs |-> {<<64, 127>>, <<64, 0>>}, draws |-> {0}],
     [gen |-> DefaultGenerator, samplerate |-> 1, max_block_length |-> 1,
      max_voices |-> MaxVoices,
      frames |-> 2, instrument |-> OffByInstrument,
      notes |-> {48, 60}, vels |-> {127},
      ccs |-> {<<23, 127>>}, draws |-> {0}],
     [gen |-> DefaultGenerator, samplerate |-> 1, max_block_length |-> 1,
      max_voices |-> MaxVoices,
      frames |-> 2, instrument |-> NoGroupInstrument,
      notes |-> {48, 60}, vels |-> {127},
      ccs |-> {<<23, 127>>}, draws |-> {0}],
     [gen |-> DefaultGenerator, samplerate |-> 1, max_block_length |-> 1,
      max_voices |-> MaxVoices,
      frames |-> 2, instrument |-> RandomPairInstrument,
      notes |-> {60}, vels |-> {127},
      ccs |-> {<<23, 127>>}, draws |-> {0, 1, 2, 3}]}

Init ==
    /\ conf \in EngineConfs
    /\ player = Sample(conf)
    /\ regions = from_region_array(conf)
    /\ last_call = PlainCall("new", NoMsg)
    /\ sfz = NoText
    /\ new_engine = << >>
    /\ keyboard = NoKeyboard

\* the runs keep every player within MaxVoices voices
WithinVoices(rs) ==
    \A i \in DOMAIN rs : Len(rs[i].sample.voices) <= conf.max_voices

\* the runs keep every clock within MaxTime frames
WithinTime(rs) ==
    \A i \in DOMAIN rs : /\ rs[i].time_since_note_on <= MaxTime
                          /\ rs[i].since_last_note_on <= MaxTime

\* the notes some region holds back for the pedal's release
PendingNotes(rs) == UNION {rs[i].notes_for_release_trigger : i \in DOMAIN rs}

\* Engine::midi_event on msg, for every draw and every iteration order
EventStep(op, msg, orders) ==
    \E random_value \in conf.draws, order \in orders :
        \E passed \in {midi_event_passed(regions, msg, random_value, order)} :
            \E group_order \in SetOrders(passed.activated) :
                \E st \in {activate_groups(passed, group_order)} :
                    /\ WithinVoices(st.regions)
                    /\ regions' = st.regions
                    /\ last_call' = Call(op, msg, random_value, st.fired,
                                         group_order, st.calls)
                    /\ UNCHANGED <<conf, player, sfz, new_engine>>

\* the event in the runs that watch no keyboard
Event(op, msg, orders) ==
    /\ EventStep(op, msg, orders)
    /\ UNCHANGED keyboard

NoteOnEvent ==
    \E note \in conf.notes, vel \in conf.vels :
        Event("midi_event", NoteOn(note, vel), {<< >>})

NoteOffEvent ==
    \E note \in conf.notes :
        Event("midi_event", NoteOff(note, 0), {<< >>})

ControlEvent ==
    \E cc \in conf.ccs :
        Event("midi_event", ControlChange(cc[1], cc[2]), SetOrders(PendingNotes(regions)))

ProcessBlock ==
    \E n \in 0..conf.max_block_length :
        /\ Engine_process_completes(conf, regions, n)
        /\ WithinTime(Engine_process(conf, regions, n))
        /\ regions' = Engine_process(conf, regions, n)
        /\ last_call' = PlainCall("process", NoMsg)
        /\ UNCHANGED <<conf, player, sfz, new_engine, keyboard>>

Next ==
    \/ NoteOnEvent
    \/ NoteOffEvent
    \/ ControlEvent
    \/ ProcessBlock

Spec == Init /\ [][Next]_vars

\* ---- one region: sfz::engine::Region behind an Engine of one region

\* a region of one key and a window of velocities (engine.rs tests
\* note_trigger_key_range, note_trigger_vel_range)
KeyVelInstrument ==
    << [DefaultRegionData EXCEPT !.key_range = [lo |-> 60, hi |-> 60],
                                 !.vel_range = [lo |-> 32, hi |-> 96]] >>

\* a region that sounds for the draws in [1/4, 3/4) (engine.rs test
\* trigger_rand), draws counted in quarters
RandomInstrument(trigger) ==
    << [DefaultRegionData EXCEPT !.key_range = [lo |-> 60, hi |-> 60],
                                 !.random_range = [lo |-> 1, hi |-> 3],
                                 !.trigger = trigger] >>

RegionConfs ==
    {[gen |-> DefaultGenerator, samplerate |-> 1, max_block_length |-> 1,
      max_voices |-> MaxVoices,
      frames |-> 2, instrument |-> KeyVelInstrument,
      notes |-> {48, 60, 72}, vels |-> {31, 32, 96, 97},
      ccs |-> {<<64, 127>>, <<64, 0>>}, draws |-> {0, 2}]}
    \cup
    {[gen |-> DefaultGenerator, samplerate |-> 1, max_block_length |-> 1,
      max_voices |-> MaxVoices,
      frames |-> 2, instrument |-> RandomInstrument(trigger),
      notes |-> {60}, vels |-> {127},
      ccs |-> {<<64, 127>>, <<64, 0>>}, draws |-> {0, 1, 2, 3}]
        : trigger \in {"Attack", "Release"}}

InitRegion ==
    /\ conf \in RegionConfs
    /\ player = Sample(conf)
    /\ regions = from_region_array(conf)
    /\ last_call = PlainCall("new", NoMsg)
    /\ sfz = NoText
    /\ new_engine = << >>
    /\ keyboard = NoKeyboard

SpecRegion == InitRegion /\ [][Next]_vars

\* ---- one region of each trigger kind, with the sustain pedal

\* a region of the keys lo..60 (engine.rs tests note_off_sustain_pedal,
\* note_trigger_release, note_trigger_release_key, trigger_release_rt_decay)
TriggerInstrument(trigger, lo) ==
    << [DefaultRegionData EXCEPT !.key_range = [lo |-> lo, hi |-> 60],
                                 !.rt_decay = 3,
                                 !.trigger = trigger] >>

\* a region without keys that controller 23 sounds (engine.rs test
\* region_trigger_cc)
ControllerInstrument ==
    << [DefaultRegionData EXCEPT !.key_range = [lo |-> None, hi |-> None],
                                 !.on_ccs = (23 :> [lo |-> 64, hi |-> 127])] >>

\* a release_key region that the pedal going down sounds as a controller
PedalNoiseInstrument ==
    << [DefaultRegionData EXCEPT !.key_range = [lo |-> 60, hi |-> 60],
                                 !.trigger = "ReleaseKey",
                                 !.on_ccs = (SustainPedalCC :>
                                                [lo |-> 64, hi |-> 127])] >>

\* a region of one key, run with one voice more than the others (the
\* region's side of sample.rs test note_on_note_on)
RetriggerInstrument ==
    << [DefaultRegionData EXCEPT !.key_range = [lo |-> 60, hi |-> 60]] >>

TriggerConfs ==
    {[gen |-> DefaultGenerator, samplerate |-> 1, max_block_length |-> 1,
      max_voices |-> MaxVoices,
      frames |-> 2, instrument |-> TriggerInstrument("Attack", 60),
      notes |-> {60}, vels |-> {0, 127},
      ccs |-> {<<64, 127>>, <<64, 0>>}, draws |-> {0}]}
    \cup
    {[gen |-> DefaultGenerator, samplerate |-> 1, max_block_length |-> 1,
      max_voices |-> MaxVoices,
      frames |-> 2, instrument |-> TriggerInstrument(trigger, 60),
      notes |-> {60, 72}, vels |-> {127},
      ccs |-> {<<64, 127>>, <<64, 0>>}, draws |-> {0}]
        : trigger \in {"First", "Legato"}}
    \cup
    {[gen |-> DefaultGenerator, samplerate |-> 1, max_block_length |-> 1,
      max_voices |-> MaxVoices,
      frames |-> 2, instrument |-> TriggerInstrument("Release", 48),
      notes |-> {48, 60}, vels |-> {63, 127},
      ccs |-> {<<64, 127>>, <<64, 0>>}, draws |-> {0}],
     [gen |-> DefaultGenerator, samplerate |-> 1, max_block_length |-> 1,
      max_voices |-> MaxVoices,
      frames |-> 2, instrument |-> TriggerInstrument("ReleaseKey", 60),
      notes |-> {60}, vels |-> {63, 127},
      ccs |-> {<<64, 127>>, <<64, 0>>}, draws |-> {0}]}
    \cup
    {[gen |-> DefaultGenerator, samplerate |-> 1, max_block_length |-> 1,
      max_voices |-> MaxVoices,
      frames |-> 2, instrument |-> ControllerInstrument,
      notes |-> {60}, vels |-> {127},
      ccs |-> {<<23, 127>>, <<23, 0>>, <<64, 127>>, <<64, 0>>}, draws |-> {0}],
     [gen |-> DefaultGenerator, samplerate |-> 1, max_block_length |-> 1,
      max_voices |-> MaxVoices,
      frames |-> 2, instrument |-> PedalNoiseInstrument,
      notes |-> {60}, vels |-> {127},
      ccs |-> {<<64, 127>>, <<64, 0>>}, draws |-> {0}],
     [gen |-> DefaultGenerator, samplerate |-> 1, max_block_length |-> 1,
      max_voices |-> MaxVoices + 1,
      frames |-> 2, instrument |-> RetriggerInstrument,
      notes |-> {60}, vels |-> {127},
      ccs |-> {<<64, 127>>, <<64, 0>>}, draws |-> {0}]}

InitTrigger ==
    /\ conf \in TriggerConfs
    /\ player = Sample(conf)
    /\ regions = from_region_array(conf)
    /\ last_call = PlainCall("new", NoMsg)
    /\ sfz = NoText
    /\ new_engine = << >>
    /\ keyboard = NoKeyboard

SpecTrigger == InitTrigger /\ [][Next]_vars

\* ---- one region with controller ranges

\* a region of one key with a range for controller 23, a range without
\* upper bound for controller 24 and one without lower bound for controller
\* 25 (engine.rs test region_trigger_cc; push_on_lo_cc, push_on_hi_cc)
ControllerRangesInstrument(trigger) ==
    << [DefaultRegionData EXCEPT !.key_range = [lo |-> 60, hi |-> 60],
                                 !.trigger = trigger,
                                 !.on_ccs = (23 :> [lo |-> 32, hi |-> 96])
                                         @@ (24 :> [lo |-> 64, hi |-> None])
                                         @@ (25 :> [lo |-> None, hi |-> 64])] >>

ControllerConfs ==
    {[gen |-> DefaultGenerator, samplerate |-> 1, max_block_length |-> 1,
      max_voices |-> MaxVoices,
      frames |-> 2, instrument |-> ControllerRangesInstrument(trigger),
      notes |-> {60}, vels |-> {127},
      ccs |-> {<<23, 31>>, <<23, 32>>, <<23, 96>>, <<23, 97>>, <<24, 100>>,
               <<25, 10>>, <<26, 64>>, <<64, 127>>, <<64, 0>>},
      draws |-> {0}]
        : trigger \in {"Attack", "Release"}}

InitController ==
    /\ conf \in ControllerConfs
    /\ player = Sample(conf)
    /\ regions = from_region_array(conf)
    /\ last_call = PlainCall("new", NoMsg)
    /\ sfz = NoText
    /\ new_engine = << >>
    /\ keyboard = NoKeyboard

SpecController == InitController /\ [][Next]_vars

\* ---- a note played and left alone (engine.rs test
\* simple_note_on_off_process): an optional pedal, NoteOn, the NoteOff of the
\* same note, then nothing but non-empty blocks

DrainConfs ==
    {[gen |-> g, samplerate |-> 1, max_block_length |-> b,
      max_voices |-> MaxVoices,
      frames |-> 2, instrument |-> TriggerInstrument(trigger, 48),
      notes |-> {48, 60}, vels |-> {127},
      ccs |-> {<<64, 127>>}, draws |-> {0}]
        : g \in {DefaultGenerator,
                 [attack |-> 1, hold |-> 0, decay |-> 0, release |-> 1]},
          b \in {1, 2},
          trigger \in {"Attack", "Release", "ReleaseKey", "First", "Legato"}}

InitDrain ==
    /\ conf \in DrainConfs
    /\ player = Sample(conf)
    /\ regions = from_region_array(conf)
    /\ last_call = PlainCall("new", NoMsg)
    /\ sfz = NoText
    /\ new_engine = << >>
    /\ keyboard = NoKeyboard

DrainPedal ==
    /\ last_call.op = "new"
    /\ ControlEvent

DrainNoteOn ==
    /\ last_call.op = "new" \/ last_call.msg.type = "ControlChange"
    /\ NoteOnEvent

DrainNoteOff ==
    /\ last_call.msg.type = "NoteOn"
    /\ Event("midi_event", NoteOff(last_call.msg.a, 0), {<< >>})

DrainProcess ==
    /\ last_call.msg.type = "NoteOff" \/ last_call.op = "process"
    /\ \E n \in 1..conf.max_block_length :
           /\ Engine_process_completes(conf, regions, n)
           /\ WithinTime(Engine_process(conf, regions, n))
           /\ regions' = Engine_process(conf, regions, n)
           /\ last_call' = PlainCall("process", NoMsg)
           /\ UNCHANGED <<conf, player, sfz, new_engine, keyboard>>

NextDrain ==
    \/ DrainPedal
    \/ DrainNoteOn
    \/ DrainNoteOff
    \/ DrainProcess

SpecDrain == InitDrain /\ [][NextDrain]_vars

\* the host keeps calling process (a block per audio cycle)
SpecDrainFair == SpecDrain /\ WF_vars(DrainProcess)

\* ------------------------------------- sfz/engine.rs: the range setters

\* v as u8: the low eight bits of an i32
as_u8(v) == v % 256

\* Result: err is "Ok" or the error's kind, val the data the call leaves
Ok(val) == [err |-> "Ok", val |-> val]

Err(err, val) == [err |-> err, val |-> val]

VelRange_set_hi(range, v) ==
    IF as_u8(v) > VelocityMax THEN Err("OutOfRange", range)
    ELSE IF as_u8(v) < range.lo THEN Err("FlippedRange", range)
    ELSE Ok([range EXCEPT !.hi = as_u8(v)])

VelRange_set_lo(range, v) ==
    IF as_u8(v) > VelocityMax THEN Err("OutOfRange", range)
    ELSE IF as_u8(v) > range.hi THEN Err("FlippedRange", range)
    ELSE Ok([range EXCEPT !.lo = as_u8(v)])

NoteRange_set_hi(range, v) ==
    IF v = -1 THEN Ok([range EXCEPT !.hi = None])
    ELSE IF as_u8(v) > 127 THEN Err("OutOfRange", range)
    ELSE IF range.lo # None /\ as_u8(v) < range.lo THEN Err("FlippedRange", range)
    ELSE Ok([range EXCEPT !.hi = as_u8(v)])

NoteRange_set_lo(range, v) ==
    IF v = -1 THEN Ok([range EXCEPT !.lo = None])
    ELSE IF as_u8(v) > 127 THEN Err("OutOfRange", range)
    ELSE IF range.hi # None /\ as_u8(v) > range.hi THEN Err("FlippedRange", range)
    ELSE Ok([range EXCEPT !.lo = as_u8(v)])

\* the first arm's guard, v < 0.0 && v > 1.0 (values in quarters)
RandomRange_out_of_range(v) == v < 0 /\ v > Quarters

RandomRange_set_hi(range, v) ==
    IF RandomRange_out_of_range(v) THEN Err("OutOfRange", range)
    ELSE IF v < range.lo /\ range.lo > 0 THEN Err("FlippedRange", range)
    ELSE Ok([range EXCEPT !.hi = v])

RandomRange_set_lo(range, v) ==
    IF RandomRange_out_of_range(v) THEN Err("OutOfRange", range)
    ELSE IF v > range.hi /\ range.hi > 0 THEN Err("FlippedRange", range)
    ELSE Ok([range EXCEPT !.lo = v])

ControlValRange_set_hi(range, v) ==
    IF v < 0 THEN Ok([range EXCEPT !.hi = None])
    ELSE IF as_u8(v) > 127 THEN Err("OutOfRange", range)
    ELSE IF range.lo # None /\ as_u8(v) < range.lo THEN Err("FlippedRange", range)
    ELSE Ok([range EXCEPT !.hi = as_u8(v)])

ControlValRange_set_lo(range, v) ==
    IF v < 0 THEN Ok([range EXCEPT !.lo = None])
    ELSE IF as_u8(v) > 127 THEN Err("OutOfRange", range)
    ELSE IF range.hi # None /\ as_u8(v) > range.hi THEN Err("FlippedRange", range)
    ELSE Ok([range EXCEPT !.lo = as_u8(v)])

\* a Result on a field carried over to the RegionData that holds the field
key_range_result(region, res) ==
    [err |-> res.err, val |-> [region EXCEPT !.key_range = res.val]]

vel_range_result(region, res) ==
    [err |-> res.err, val |-> [region EXCEPT !.vel_range = res.val]]

random_range_result(region, res) ==
    [err |-> res.err, val |-> [region EXCEPT !.random_range = res.val]]

\* RegionData::set_pitch_keycenter: range_check(v, 0, 127)
set_pitch_keycenter(region, v) ==
    IF v >= 0 /\ v <= 127
    THEN Ok([region EXCEPT !.pitch_keycenter = v])
    ELSE Err("OutOfRange", region)

\* the range of controller channel in on_ccs, a new one with no bound when
\* there is none
on_ccs_range(region, channel) ==
    IF as_u8(channel) \in DOMAIN region.on_ccs
    THEN region.on_ccs[as_u8(channel)]
    ELSE [lo |-> None, hi |-> None]

\* the outcome of a setter on the range of controller channel: stored when
\* the setter succeeds, dropped when it fails
on_ccs_result(region, channel, res) ==
    IF res.err = "Ok"
    THEN Ok([region EXCEPT !.on_ccs =
                [c \in DOMAIN region.on_ccs \cup {as_u8(channel)} |->
                    IF c = as_u8(channel) THEN res.val ELSE region.on_ccs[c]]])
    ELSE Err(res.err, region)

push_on_lo_cc(region, channel, v) ==
    on_ccs_result(region, channel,
                  ControlValRange_set_lo(on_ccs_range(region, channel), v))

push_on_hi_cc(region, channel, v) ==
    on_ccs_result(region, channel,
                  ControlValRange_set_hi(on_ccs_range(region, channel), v))

\* ------------------------------------------------------- sfz/parser.rs

\* an opcode of the text, key=value: the value as value.parse::<i32>() (or
\* parse::<f32>(), in quarters) reads it, name for the values that are words
Opcode(key, value) == [key |-> key, cc |-> 0, value |-> value, name |-> ""]

WordOpcode(key, name) == [key |-> key, cc |-> 0, value |-> 0, name |-> name]

\* on_loccN=value, on_hiccN=value
CcOpcode(key, cc, value) == [key |-> key, cc |-> cc, value |-> value, name |-> ""]

NoOpcode == Opcode("", 0)

\* the key arm of take_opcode: set_hi(k).and_then(set_lo(k))
\* .and_then(set_pitch_keycenter((k as u8).into()))
take_opcode_key(region, k) ==
    IF k < 0 THEN Err("OutOfRange", region)
    ELSE LET hi == key_range_result(region, NoteRange_set_hi(region.key_range, k))
             lo == key_range_result(hi.val, NoteRange_set_lo(hi.val.key_range, k))
         IN  IF hi.err # "Ok" THEN hi
             ELSE IF lo.err # "Ok" THEN lo
             ELSE set_pitch_keycenter(lo.val, as_u8(k))

\* parse_trigger
parse_trigger(name) ==
    CASE name = "attack"      -> Ok("Attack")
      [] name = "release"     -> Ok("Release")
      [] name = "first"       -> Ok("First")
      [] name = "legato"      -> Ok("Legato")
      [] name = "release_key" -> Ok("ReleaseKey")
      [] OTHER                -> Err("KeyError", name)

\* take_opcode, for the opcodes that reach a field of the model's RegionData
\* and the keys it does not know (the texts hold no other)
take_opcode(region, op) ==
    CASE op.key = "lokey" ->
            key_range_result(region, NoteRange_set_lo(region.key_range, op.value))
      [] op.key = "hikey" ->
            key_range_result(region, NoteRange_set_hi(region.key_range, op.value))
      [] op.key = "pitch_keycenter" ->
            IF op.value < 0 THEN Err("ParseIntError", region)
            ELSE set_pitch_keycenter(region, op.value)
      [] op.key = "key" -> take_opcode_key(region, op.value)
      [] op.key = "lovel" ->
            vel_range_result(region, VelRange_set_lo(region.vel_range, op.value))
      [] op.key = "hivel" ->
            vel_range_result(region, VelRange_set_hi(region.vel_range, op.value))
      [] op.key = "lorand" ->
            random_range_result(region, RandomRange_set_lo(region.random_range, op.value))
      [] op.key = "hirand" ->
            random_range_result(region, RandomRange_set_hi(region.random_range, op.value))
      [] op.key = "group" ->
            IF op.value < 0 THEN Err("ParseIntError", region)
            ELSE Ok([region EXCEPT !.group = op.value])
      [] op.key = "off_by" ->
            IF op.value < 0 THEN Err("ParseIntError", region)
            ELSE Ok([region EXCEPT !.off_by = op.value])
      [] op.key = "trigger" ->
            IF parse_trigger(op.name).err = "Ok"
            THEN Ok([region EXCEPT !.trigger = parse_trigger(op.name).val])
            ELSE Err("KeyError", region)
      [] OTHER -> Err("KeyError", region)

\* an opcode on the RegionData of the section being read: take_opcode, and
\* for the controller ranges push_on_lo_cc and push_on_hi_cc of RegionData
apply_opcode(region, op) ==
    CASE op.key = "on_locc" -> push_on_lo_cc(region, op.cc, op.value)
      [] op.key = "on_hicc" -> push_on_hi_cc(region, op.cc, op.value)
      [] OTHER              -> take_opcode(region, op)

\* parse_sfz_text before the first character
StartText ==
    [current_group |-> DefaultRegionData, regions |-> << >>,
     header |-> "start", section |-> DefaultRegionData, result |-> "parsing",
     opcode |-> NoOpcode, length |-> 0,
     group_text |-> << >>, section_text |-> << >>, texts |-> << >>,
     group_texts |-> << >>]

\* a group section that starts from the group before it
group_start_inherited(current_group) == current_group

\* the RegionData a group section starts from: RegionData::default()
group_start(current_group) == DefaultRegionData

\* parse_region has returned: a group becomes current_group, a region is
\* pushed.  History: group_text holds the opcodes of the group that is
\* current, group_texts those of every group read, texts those that made
\* each region.
closed(p) ==
    CASE p.header = "group" ->
            [p EXCEPT !.current_group = p.section,
                      !.group_text = p.section_text,
                      !.group_texts = Append(p.group_texts, p.section_text)]
      [] p.header = "region" ->
            [p EXCEPT !.regions = Append(p.regions, p.section),
                      !.texts = Append(p.texts, [group |-> p.group_text,
                                                 own |-> p.section_text])]
      [] OTHER -> p

\* parse_header and the arm of parse_sfz_text it selects
parse_header(p, h) ==
    LET c == closed(p)
    IN  CASE h = "group" ->
                [c EXCEPT !.header = h, !.section = group_start(c.current_group),
                          !.section_text = << >>, !.opcode = NoOpcode,
                          !.length = p.length + 1]
          [] h = "region" ->
                [c EXCEPT !.header = h, !.section = c.current_group,
                          !.section_text = << >>, !.opcode = NoOpcode,
                          !.length = p.length + 1]
          [] OTHER ->
                [c EXCEPT !.result = "KeyError", !.opcode = NoOpcode,
                          !.length = p.length + 1]

\* one turn of the loop of parse_region: parse_opcode, take_opcode(...)?
parse_opcode(p, op) ==
    IF p.header = "start"
    THEN [p EXCEPT !.result = "General", !.opcode = op, !.length = p.length + 1]
    ELSE LET res == apply_opcode(p.section, op)
         IN  [p EXCEPT !.section = res.val,
                       !.section_text = Append(p.section_text, op),
                       !.result = IF res.err = "Ok" THEN "parsing" ELSE res.err,
                       !.opcode = op,
                       !.length = p.length + 1]

\* the text ends: Ok(regions), or the General error of a text without tag
parse_end(p) ==
    IF p.header = "start"
    THEN [p EXCEPT !.result = "General", !.opcode = NoOpcode]
    ELSE [closed(p) EXCEPT !.result = "Ok", !.header = "end", !.opcode = NoOpcode]

\* ---- the parser reading a text, token by token

\* The most tokens (headers and opcodes) of a text.
MaxText == 5

\* the texts: each alphabet holds the tokens of one kind of opcode
ParserConfs ==
    {[headers |-> {"group", "region"}, max_text |-> MaxText - 1,
      opcodes |-> {Opcode("lokey", -1), Opcode("lokey", 60), Opcode("lokey", 128),
                   Opcode("hikey", -1), Opcode("hikey", 48), Opcode("hikey", 316),
                   Opcode("key", -1), Opcode("key", 48), Opcode("key", 72),
                   Opcode("key", 316)}],
     [headers |-> {"region"}, max_text |-> MaxText - 1,
      opcodes |-> {Opcode("lovel", -200), Opcode("lovel", -1), Opcode("lovel", 64),
                   Opcode("hivel", 32), Opcode("hivel", 128), Opcode("hivel", 300),
                   CcOpcode("on_locc", 64, -5), CcOpcode("on_locc", 64, 64),
                   CcOpcode("on_locc", 64, 300), CcOpcode("on_hicc", 64, 127),
                   CcOpcode("on_hicc", 64, 128), CcOpcode("on_hicc", 23, -1)}],
     [headers |-> {"region"}, max_text |-> MaxText - 1,
      opcodes |-> {Opcode("lorand", -2), Opcode("lorand", 0), Opcode("lorand", 2),
                   Opcode("lorand", 6), Opcode("hirand", -2), Opcode("hirand", 0),
                   Opcode("hirand", 2),
                   Opcode("hirand", 4), Opcode("hirand", 6)}],
     [headers |-> {"group", "region", "global"}, max_text |-> MaxText,
      opcodes |-> {Opcode("group", 1), Opcode("off_by", 2), Opcode("key", 48),
                   Opcode("pitch_keycenter", 72), WordOpcode("trigger", "release"),
                   WordOpcode("trigger", "loop"), Opcode("foo", 42)}]}

InitParser ==
    /\ conf \in ParserConfs
    /\ player = << >>
    /\ regions = << >>
    /\ last_call = PlainCall("new", NoMsg)
    /\ sfz = StartText
    /\ new_engine = << >>
    /\ keyboard = NoKeyboard

ParseHeader ==
    \E h \in conf.headers :
        /\ sfz.result = "parsing"
        /\ sfz.length < conf.max_text
        /\ sfz' = parse_header(sfz, h)
        /\ last_call' = PlainCall("parse_header", NoMsg)
        /\ UNCHANGED <<conf, player, regions, new_engine, keyboard>>

ParseOpcode ==
    \E op \in conf.opcodes :
        /\ sfz.result = "parsing"
        /\ sfz.length < conf.max_text
        /\ sfz' = parse_opcode(sfz, op)
        /\ last_call' = PlainCall("parse_opcode", NoMsg)
        /\ UNCHANGED <<conf, player, regions, new_engine, keyboard>>

ParseEnd ==
    /\ sfz.result = "parsing"
    /\ sfz' = parse_end(sfz)
    /\ last_call' = PlainCall("parse_end", NoMsg)
    /\ UNCHANGED <<conf, player, regions, new_engine, keyboard>>

NextParser ==
    \/ ParseHeader
    \/ ParseOpcode
    \/ ParseEnd

SpecParser == InitParser /\ [][NextParser]_vars

\* ---- the LV2 host: sonarigo-lv2 SonarigoLV2 (regions is its engine)

\* Engine::fadeout: every sounding voice of every region enters Release
fadeout(rs) ==
    [i \in DOMAIN rs |-> [rs[i] EXCEPT !.sample = all_notes_off(rs[i].sample)]]

\* Engine::fadeout_finished: no region has a voice that is not Inactive
fadeout_finished(rs) ==
    \A i \in DOMAIN rs :
        \A k \in DOMAIN rs[i].sample.voices :
            ~is_active(rs[i].sample.voices[k].envelope_state)

\* a call run makes on one of the two engines (history)
HostCall(engine, op) == [engine |-> engine, op |-> op]

\* the head of run: the choice of active_engine.  With a new engine waiting
\* and the fade-out finished the engines are swapped; with the fade-out
\* unfinished the old engine is processed for the whole block and
\* active_engine is the new one.
run_start(c, engine, new, nsamples) ==
    IF new # << >>
    THEN IF fadeout_finished(engine)
         THEN [engine |-> new[1], new_engine |-> << >>, active |-> "engine",
               calls |-> << >>]
         ELSE [engine |-> Engine_process(c, engine, nsamples), new_engine |-> new,
               active |-> "new_engine",
               calls |-> <<HostCall("engine", "process")>>]
    ELSE [engine |-> engine, new_engine |-> new, active |-> "engine",
          calls |-> << >>]

\* the regions of active_engine
active_engine(st) ==
    IF st.active = "engine" THEN st.engine ELSE st.new_engine[1]

\* active_engine after a call that left it with the regions rs
run_called(st, rs, op) ==
    IF st.active = "engine"
    THEN [st EXCEPT !.engine = rs,
                    !.calls = Append(st.calls, HostCall("engine", op))]
    ELSE [st EXCEPT !.new_engine = <<rs>>,
                    !.calls = Append(st.calls, HostCall("new_engine", op))]

\* active_engine.process(out[offset..frame]), n = frame - offset
run_process(c, st, n) ==
    run_called(st, Engine_process(c, active_engine(st), n), "process")

\* the engines of st stay within the bounds of the runs
HostWithin(st) ==
    /\ WithinVoices(st.engine) /\ WithinTime(st.engine)
    /\ st.new_engine # << >>
          => WithinVoices(st.new_engine[1]) /\ WithinTime(st.new_engine[1])

HostConfs ==
    {[gen |-> g, samplerate |-> 1, max_block_length |-> 2,
      max_voices |-> MaxVoices,
      frames |-> f, instrument |-> RetriggerInstrument,
      notes |-> {60}, vels |-> {127},
      ccs |-> {}, draws |-> {0}]
        : g \in {DefaultGenerator,
                 [attack |-> 1, hold |-> 0, decay |-> 0, release |-> 1]},
          f \in {2, 3}}

\* the host with a loaded engine in place (as a swap leaves it)
InitHost ==
    /\ conf \in HostConfs
    /\ player = Sample(conf)
    /\ regions = from_region_array(conf)
    /\ last_call = PlainCall("new", NoMsg)
    /\ sfz = NoText
    /\ new_engine = << >>
    /\ keyboard = NoKeyboard

\* work_response: the worker hands over the engine it has built
HostWorkResponse ==
    /\ regions' = fadeout(regions)
    /\ new_engine' = <<from_region_array(conf)>>
    /\ last_call' = PlainCall("work_response", NoMsg)
    /\ UNCHANGED <<conf, player, sfz, keyboard>>

\* run with no event in the control sequence
HostRunQuiet ==
    \E nsamples \in 1..conf.max_block_length :
        \E st \in {run_process(conf, run_start(conf, regions, new_engine, nsamples),
                               nsamples)} :
            /\ HostWithin(st)
            /\ regions' = st.engine
            /\ new_engine' = st.new_engine
            /\ last_call' = Call("run", NoMsg, 0, {}, << >>, st.calls)
            /\ UNCHANGED <<conf, player, sfz, keyboard>>

\* run with one MIDI event at frame ts of the block
HostRunEvent ==
    \E nsamples \in 1..conf.max_block_length, note \in conf.notes,
       vel \in conf.vels, type \in {"NoteOn", "NoteOff"},
       random_value \in conf.draws :
        \E ts \in 0..(nsamples - 1),
           msg \in {IF type = "NoteOn" THEN NoteOn(note, vel) ELSE NoteOff(note, 0)} :
            \E st0 \in {run_start(conf, regions, new_engine, nsamples)} :
                \E st1 \in {IF ts > 0 THEN run_process(conf, st0, ts) ELSE st0} :
                    \E passed \in {midi_event_passed(active_engine(st1), msg,
                                                    random_value, << >>)} :
                        \E group_order \in SetOrders(passed.activated) :
                            \E ev \in {activate_groups(passed, group_order)} :
                                \E st \in {run_process(
                                              conf,
                                              run_called(st1, ev.regions, "midi_event"),
                                              nsamples - ts)} :
                                    /\ HostWithin(st)
                                    /\ regions' = st.engine
                                    /\ new_engine' = st.new_engine
                                    /\ last_call' = Call("run", msg, random_value,
                                                         ev.fired, group_order,
                                                         st.calls)
                                    /\ UNCHANGED <<conf, player, sfz, keyboard>>

NextHost ==
    \/ HostWorkResponse
    \/ HostRunQuiet
    \/ HostRunEvent

SpecHost == InitHost /\ [][NextHost]_vars

\* ---- one region that counts the other notes, behind a random range

\* a first or legato region of one key that sounds for the draws in
\* [1/4, 3/4) (engine.rs tests note_trigger_first, note_trigger_legato,
\* trigger_rand)
OtherNotesConfs ==
    {[gen |-> DefaultGenerator, samplerate |-> 1, max_block_length |-> 1,
      max_voices |-> MaxVoices,
      frames |-> 2, instrument |-> RandomInstrument(trigger),
      notes |-> {48, 60}, vels |-> {1, 127},
      ccs |-> {<<64, 127>>, <<64, 0>>}, draws |-> {0, 2}]
        : trigger \in {"First", "Legato"}}

InitOtherNotes ==
    /\ conf \in OtherNotesConfs
    /\ player = Sample(conf)
    /\ regions = from_region_array(conf)
    /\ last_call = PlainCall("new", NoMsg)
    /\ sfz = NoText
    /\ new_engine = << >>
    /\ keyboard = NoKeyboard

SpecOtherNotes == InitOtherNotes /\ [][Next]_vars

\* ---- one region under a watched keyboard: the runs keep, next to the
\* engine, which keys are down and what became of the latest NoteOn

\* a release-triggered region of one key, a window of velocities and a window
\* of draws (engine.rs test note_trigger_release_key_vel_range)
ReleaseWindowInstrument(trigger) ==
    << [DefaultRegionData EXCEPT !.key_range = [lo |-> 60, hi |-> 60],
                                 !.vel_range = [lo |-> 32, hi |-> 96],
                                 !.random_range = [lo |-> 1, hi |-> 3],
                                 !.trigger = trigger] >>

KeyboardConfs ==
    {[gen |-> DefaultGenerator, samplerate |-> 1, max_block_length |-> 1,
      max_voices |-> MaxVoices,
      frames |-> 2, instrument |-> TriggerInstrument(trigger, 48),
      notes |-> {48, 60, 72}, vels |-> {127},
      ccs |-> {}, draws |-> {0}]
        : trigger \in {"First", "Legato"}}
    \cup
    {[gen |-> DefaultGenerator, samplerate |-> 1, max_block_length |-> 1,
      max_voices |-> MaxVoices,
      frames |-> 2, instrument |-> TriggerInstrument("Attack", 60),
      notes |-> {60}, vels |-> {127},
      ccs |-> {<<64, 127>>, <<64, 0>>}, draws |-> {0}]}
    \cup
    {[gen |-> DefaultGenerator, samplerate |-> 1, max_block_length |-> 1,
      max_voices |-> MaxVoices,
      frames |-> 2, instrument |-> ReleaseWindowInstrument(trigger),
      notes |-> {60, 72}, vels |-> {16, 64},
      ccs |-> {<<64, 127>>, <<64, 0>>}, draws |-> {0, 2}]
        : trigger \in {"Release", "ReleaseKey"}}

\* no key is down and no NoteOn has come in
StartKeyboard == [held |-> {}, latest |-> "none"]

\* the region takes the NoteOn: its key, its velocity and the draw are inside
\* key_range, vel_range and random_range
accepts(params, msg, random_value) ==
    /\ NoteRange_covering(params.key_range, msg.a)
    /\ VelRange_covering(params.vel_range, msg.b)
    /\ RandomRange_covering(params.random_range, random_value)

\* a key goes down
key_down(kb, params, msg, random_value) ==
    [held |-> kb.held \cup {msg.a},
     latest |-> IF accepts(params, msg, random_value)
                THEN "accepted" ELSE "rejected"]

\* a key goes up
key_up(kb, msg) == [kb EXCEPT !.held = @ \ {msg.a}]

InitKeyboard ==
    /\ conf \in KeyboardConfs
    /\ player = Sample(conf)
    /\ regions = from_region_array(conf)
    /\ last_call = PlainCall("new", NoMsg)
    /\ sfz = NoText
    /\ new_engine = << >>
    /\ keyboard = StartKeyboard

KeyboardNoteOn ==
    \E note \in conf.notes, vel \in conf.vels :
        /\ EventStep("midi_event", NoteOn(note, vel), {<< >>})
        /\ keyboard' = key_down(keyboard, regions[1].params, NoteOn(note, vel),
                                last_call'.random_value)

KeyboardNoteOff ==
    \E note \in conf.notes :
        /\ EventStep("midi_event", NoteOff(note, 0), {<< >>})
        /\ keyboard' = key_up(keyboard, NoteOff(note, 0))

NextKeyboard ==
    \/ KeyboardNoteOn
    \/ KeyboardNoteOff
    \/ ControlEvent
    \/ ProcessBlock

SpecKeyboard == InitKeyboard /\ [][NextKeyboard]_vars

\* ---- the envelope tables of every generator: envelopes::ADSREnvelope::new
\* behind a player of one note (envelopes.rs tests adsr_envelope_length,
\* generate_adsr_envelope)

EnvelopeConfs ==
    {[gen |-> [attack |-> a, hold |-> h, decay |-> d, release |-> r],
      samplerate |-> sr, max_block_length |-> b, frames |-> 2,
      instrument |-> << >>, notes |-> {60}, vels |-> {127},
      ccs |-> {}, draws |-> {0}]
        : a \in {0, 1, 2}, h \in {0, 1}, d \in {0, 1}, r \in {0},
          sr \in {1, 2}, b \in {1, 2, 3}}

InitEnvelope ==
    /\ conf \in EnvelopeConfs
    /\ player = Sample(conf)
    /\ regions = << >>
    /\ last_call = PlainCall("new", NoMsg)
    /\ sfz = NoText
    /\ new_engine = << >>
    /\ keyboard = NoKeyboard

SpecEnvelope == InitEnvelope /\ [][NextPlayer]_vars

\* ---- events that walk the HashSets: a pedal going up that releases the
\* two notes it held, a NoteOn that sounds two regions of different groups

\* regions 1 and 2 play key 60 and belong to the groups 1 and 2; region 3
\* plays key 48 until group 2 sounds
TwoGroupsInstrument ==
    << [DefaultRegionData EXCEPT !.key_range = [lo |-> 60, hi |-> 60],
                                 !.group = 1],
       [DefaultRegionData EXCEPT !.key_range = [lo |-> 60, hi |-> 60],
                                 !.group = 2],
       [DefaultRegionData EXCEPT !.key_range = [lo |-> 48, hi |-> 48],
                                 !.off_by = 2] >>

OrdersConfs ==
    {[gen |-> DefaultGenerator, samplerate |-> 1, max_block_length |-> 1,
      max_voices |-> MaxVoices,
      frames |-> 2, instrument |-> TriggerInstrument("Attack", 48),
      notes |-> {48, 60}, vels |-> {127},
      ccs |-> {<<64, 127>>, <<64, 0>>}, draws |-> {0}],
     [gen |-> DefaultGenerator, samplerate |-> 1, max_block_length |-> 1,
      max_voices |-> MaxVoices,
      frames |-> 2, instrument |-> TwoGroupsInstrument,
      notes |-> {48, 60}, vels |-> {127},
      ccs |-> {}, draws |-> {0}]}

InitOrders ==
    /\ conf \in OrdersConfs
    /\ player = Sample(conf)
    /\ regions = from_region_array(conf)
    /\ last_call = PlainCall("new", NoMsg)
    /\ sfz = NoText
    /\ new_engine = << >>
    /\ keyboard = NoKeyboard

SpecOrders == InitOrders /\ [][Next]_vars

\* ------------------------------------------------------------- the claims

\* the place of an envelope state in the order AttackDecay, Sustain,
\* Release, Inactive
StateRank(state) ==
    CASE state.tag = "AttackDecay" -> 0
      [] state.tag = "Sustain"     -> 1
      [] state.tag = "Release"     -> 2
      [] OTHER                     -> 3

\* C1: after every call of the player's process, every voice left in the
\* voice list has position < real_sample_length and an envelope state other
\* than Inactive.
C1_ProcessKeepsLiveVoices ==
    last_call.op = "process" =>
        \A i \in DOMAIN player.voices :
            /\ player.voices[i].position < 2 * conf.frames
            /\ player.voices[i].envelope_state.tag # "Inactive"

\* C1 happens: a process call has left a voice that it moved on, beside a
\* releasing one.
C1_Witness ==
    /\ last_call.op = "process"
    /\ \E i, j \in DOMAIN player.voices :
          /\ player.voices[i].position > 0
          /\ player.voices[i].envelope_state.tag = "Sustain"
          /\ player.voices[j].envelope_state.tag = "Release"
          /\ player.voices[j].envelope_state.pos > 0

\* C2: in every step of the player, a voice that stays in the list keeps or
\* advances its place in the order AttackDecay -> Sustain -> Release ->
\* Inactive; a voice in Release never returns to AttackDecay or Sustain.
C2_EnvelopeOnlyForward ==
    [][\A i \in DOMAIN player.voices, j \in DOMAIN player'.voices :
          player.voices[i].id = player'.voices[j].id =>
              StateRank(player'.voices[j].envelope_state)
                  >= StateRank(player.voices[i].envelope_state)]_vars

\* C2 happens: a process call has moved a releasing voice on within its
\* release while a later voice of the same note sounds.
C2_Witness ==
    /\ last_call.op = "process"
    /\ \E i, j \in DOMAIN player.voices :
          /\ i < j
          /\ player.voices[i].note = player.voices[j].note
          /\ player.voices[i].envelope_state.tag = "Release"
          /\ player.voices[i].envelope_state.pos > 0
          /\ player.voices[j].envelope_state.tag \in {"AttackDecay", "Sustain"}

\* note_off called once for the note of every voice of the player
RECURSIVE note_off_notes(_, _)
note_off_notes(s, notes) ==
    IF notes = {} THEN s
    ELSE LET n == CHOOSE x \in notes : TRUE
         IN  note_off_notes(note_off(s, n), notes \ {n})

\* C3: all_notes_off has exactly the effect of note_off for the note of
\* every voice: voices not yet releasing move to Release(0) with
\* release_start_gain = last_envelope_gain, voices already in Release keep
\* their release index and their release_start_gain.
C3_AllNotesOffIsNoteOffForAll ==
    [][last_call'.op = "all_notes_off" =>
          player'.voices =
              note_off_notes(player,
                  {player.voices[i].note : i \in DOMAIN player.voices}).voices]_vars

\* the group ids > 0 of the regions that returned true in the last event
FiredGroups(rs, call) == {rs[i].params.group : i \in call.fired} \ {0}

\* region i has group or off_by g
InGroup(rs, i, g) == rs[i].params.group = g \/ rs[i].params.off_by = g

\* C4: after an Engine event in which a region with group G > 0 returns
\* true, every region that did not return true for that event and whose
\* group or off_by is G has all its voices in Release.
C4_GroupSilencesOtherRegions ==
    last_call.op = "midi_event" =>
        \A g \in FiredGroups(regions, last_call) :
            \A j \in DOMAIN regions :
                (j \notin last_call.fired /\ InGroup(regions, j, g)) =>
                    \A k \in DOMAIN regions[j].sample.voices :
                        regions[j].sample.voices[k].envelope_state.tag = "Release"

\* C4 happens: a region fired with group g, and a region that did not fire
\* and is turned off by g (not of group g itself) holds a voice, now in
\* Release.
C4_Witness ==
    /\ last_call.op = "midi_event"
    /\ \E g \in FiredGroups(regions, last_call) :
          \E j \in DOMAIN regions :
              /\ j \notin last_call.fired
              /\ regions[j].params.off_by = g
              /\ regions[j].params.group # g
              /\ regions[j].sample.voices # << >>
              /\ \A k \in DOMAIN regions[j].sample.voices :
                     regions[j].sample.voices[k].envelope_state.tag = "Release"

\* C5: after an Engine event in which a region with group G > 0 fires,
\* every voice that was there before the event, in any region whose group
\* or off_by is G, is in Release; only the voice the event started is
\* spared.  (An event removes no voice, so voice k before is voice k after.)
C5_GroupSilencesEarlierVoices ==
    [][last_call'.op = "midi_event" =>
          \A g \in FiredGroups(regions', last_call') :
              \A j \in DOMAIN regions :
                  InGroup(regions, j, g) =>
                      \A k \in DOMAIN regions[j].sample.voices :
                          regions'[j].sample.voices[k].envelope_state.tag
                              = "Release"]_vars

\* C6: at the end of an Engine event (the state its group broadcast ran
\* in), a region is immune exactly when it returned true from pass_midi_msg
\* for that event, whatever happened in earlier events.
C6_ImmuneIffFired ==
    last_call.op = "midi_event" =>
        \A i \in DOMAIN regions :
            regions[i].once_immune_against_group_events <=> i \in last_call.fired

\* C6 happens: one region fired and is immune, and a region that holds a
\* voice from an earlier event (when it was immune) did not fire and is
\* not immune.
C6_Witness ==
    /\ last_call.op = "midi_event"
    /\ \E i, j \in DOMAIN regions :
          /\ i \in last_call.fired
          /\ regions[i].once_immune_against_group_events
          /\ j \notin last_call.fired
          /\ regions[j].sample.voices # << >>
          /\ ~regions[j].once_immune_against_group_events

\* C7: within one Engine event, pass_midi_msg has been called on every
\* region before group_activated is called on any region.
C7_PassBeforeGroupActivated ==
    last_call.op = "midi_event" =>
        /\ \A i \in DOMAIN regions :
              \E k \in DOMAIN last_call.calls : last_call.calls[k] = PassCall(i)
        /\ \A k, l \in DOMAIN last_call.calls :
              (/\ last_call.calls[k].call = "group_activated"
               /\ last_call.calls[l].call = "pass_midi_msg") => l < k

\* C7 happens: an event in which the first region fired, so that a group
\* broadcast was due before the later regions had been passed the event.
C7_Witness ==
    /\ last_call.op = "midi_event"
    /\ 1 \in last_call.fired
    /\ regions[1].params.group > 0
    /\ Len(regions) > 1
    /\ \E k \in DOMAIN last_call.calls :
          last_call.calls[k] = GroupCall(Len(regions), regions[1].params.group)

\* C8 as claimed: for every event dispatch, the number of regions with
\* group > 0 that return true equals the number of group ids the Engine
\* runs the group-activation phase for.
C8_FiredRegionsEqualGroups ==
    last_call.op = "midi_event" =>
        Cardinality({i \in last_call.fired : regions[i].params.group > 0})
            = Len(last_call.group_order)

\* C8 amended: for every event dispatch, the number of distinct group ids
\* > 0 among the regions that return true equals the number of group ids
\* the Engine runs the group-activation phase for, each of them once.
C8_DistinctFiredGroupsEqualGroups ==
    last_call.op = "midi_event" =>
        /\ Cardinality(FiredGroups(regions, last_call)) = Len(last_call.group_order)
        /\ {last_call.group_order[k] : k \in DOMAIN last_call.group_order}
              = FiredGroups(regions, last_call)

\* C8 happens: two regions of two different groups fired in one event, and
\* the group-activation phase ran for both groups.
C8_Witness ==
    /\ last_call.op = "midi_event"
    /\ Cardinality(last_call.fired) = 2
    /\ Len(last_call.group_order) = 2

\* the notes of the voices of a player
VoiceNotes(sample) == {sample.voices[k].note : k \in DOMAIN sample.voices}

\* the region's player has one voice more, a fresh one for note
StartedVoice(before, after, note) ==
    /\ Len(after.voices) = Len(before.voices) + 1
    /\ after.voices[Len(after.voices)].note = note
    /\ after.voices[Len(after.voices)].envelope_state = AttackDecay(0)
    /\ after.voices[Len(after.voices)].position = 0
    /\ SubSeq(after.voices, 1, Len(before.voices)) = before.voices

\* C9: for an Attack-triggered region with random gating disabled and no
\* voice for note n, a NoteOn(n, v) starts a voice for n if and only if
\* key_range.lo <= n <= key_range.hi and vel_range.lo <= v <= vel_range.hi;
\* otherwise the voices stay as they are.
C9_NoteOnStartsVoiceIffInRanges ==
    [][(/\ last_call'.op = "midi_event"
        /\ last_call'.msg.type = "NoteOn"
        /\ regions[1].params.trigger = "Attack"
        /\ regions[1].params.random_range.lo = regions[1].params.random_range.hi
        /\ last_call'.msg.a \notin VoiceNotes(regions[1].sample))
       => IF /\ regions[1].params.key_range.lo <= last_call'.msg.a
             /\ last_call'.msg.a <= regions[1].params.key_range.hi
             /\ regions[1].params.vel_range.lo <= last_call'.msg.b
             /\ last_call'.msg.b <= regions[1].params.vel_range.hi
          THEN StartedVoice(regions[1].sample, regions'[1].sample,
                            last_call'.msg.a)
          ELSE regions'[1].sample = regions[1].sample]_vars

\* C9 happens: a NoteOn at the upper end of the velocity window has
\* started the only voice of a region whose window is narrower than 0..127.
C9_Witness ==
    /\ last_call.op = "midi_event"
    /\ last_call.msg.type = "NoteOn"
    /\ regions[1].params.trigger = "Attack"
    /\ regions[1].params.random_range.lo = regions[1].params.random_range.hi
    /\ last_call.msg.b = regions[1].params.vel_range.hi
    /\ regions[1].params.vel_range.hi < VelocityMax
    /\ last_call.fired = {1}
    /\ Len(regions[1].sample.voices) = 1
    /\ regions[1].sample.voices[1].note = last_call.msg.a

\* a NoteOn for a region with random_range [a, b), a < b, that matches the
\* region's key and velocity ranges
RandomGatedNoteOn(r, call) ==
    /\ call.op = "midi_event"
    /\ call.msg.type = "NoteOn"
    /\ r.params.random_range.lo < r.params.random_range.hi
    /\ r.params.key_range.lo <= call.msg.a
    /\ call.msg.a <= r.params.key_range.hi
    /\ r.params.vel_range.lo <= call.msg.b
    /\ call.msg.b <= r.params.vel_range.hi

\* the draw d of the event lies in [a, b)
DrawInRange(r, call) ==
    /\ r.params.random_range.lo <= call.random_value
    /\ call.random_value < r.params.random_range.hi

\* C10 as claimed: for a region with random_range [a, b), a < b, and a
\* NoteOn that matches its key and velocity ranges, the region fires if and
\* only if the draw d satisfies a <= d < b.
C10_FiresIffDrawInRange ==
    [][RandomGatedNoteOn(regions[1], last_call')
          => (1 \in last_call'.fired <=> DrawInRange(regions[1], last_call'))]_vars

\* C10 amended: for an Attack-triggered region with random_range [a, b),
\* a < b, that holds no non-releasing voice for note n, a NoteOn(n, v) that
\* matches its key and velocity ranges makes the region fire if and only if
\* the draw d satisfies a <= d < b.
C10_AttackFiresIffDrawInRange ==
    [][(/\ RandomGatedNoteOn(regions[1], last_call')
        /\ regions[1].params.trigger = "Attack"
        /\ \A k \in DOMAIN regions[1].sample.voices :
               regions[1].sample.voices[k].note = last_call'.msg.a
                   => regions[1].sample.voices[k].envelope_state.tag = "Release")
       => (1 \in last_call'.fired <=> DrawInRange(regions[1], last_call'))]_vars

\* C10 happens: an Attack-triggered region with a random range has fired
\* on a NoteOn whose draw is the last one below b, and holds the voice.
C10_Witness ==
    /\ RandomGatedNoteOn(regions[1], last_call)
    /\ regions[1].params.trigger = "Attack"
    /\ last_call.random_value = regions[1].params.random_range.hi - 1
    /\ last_call.fired = {1}
    /\ Len(regions[1].sample.voices) = 1

\* the event matches region r in everything but the draw: a NoteOn that an
\* Attack region without a sounding voice for the note covers, or a
\* ControlChange that one of the region's on_ccs ranges covers
OtherwiseMatches(r, msg) ==
    \/ /\ msg.type = "NoteOn"
       /\ r.params.trigger = "Attack"
       /\ r.params.key_range.lo <= msg.a /\ msg.a <= r.params.key_range.hi
       /\ r.params.vel_range.lo <= msg.b /\ msg.b <= r.params.vel_range.hi
       /\ \A k \in DOMAIN r.sample.voices : r.sample.voices[k].note # msg.a
    \/ /\ msg.type = "ControlChange"
       /\ msg.a \in DOMAIN r.params.on_ccs
       /\ r.params.on_ccs[msg.a].lo <= msg.b
       /\ msg.b <= r.params.on_ccs[msg.a].hi

\* the random ranges of two regions do not overlap and cover [0, 1) together
SplitDraws(r1, r2) ==
    /\ r1.params.random_range.lo = 0
    /\ r1.params.random_range.lo < r1.params.random_range.hi
    /\ r1.params.random_range.hi = r2.params.random_range.lo
    /\ r2.params.random_range.lo < r2.params.random_range.hi
    /\ r2.params.random_range.hi = Quarters

\* C11: for any single Engine event (a NoteOn, or a ControlChange matched
\* through on_ccs) that otherwise matches two regions whose random ranges do
\* not overlap and together cover [0, 1), exactly one of the two regions
\* fires.
C11_ExactlyOneOfSplitDrawsFires ==
    [][(/\ last_call'.op = "midi_event"
        /\ Len(regions) = 2
        /\ SplitDraws(regions[1], regions[2])
        /\ OtherwiseMatches(regions[1], last_call'.msg)
        /\ OtherwiseMatches(regions[2], last_call'.msg))
       => Cardinality(last_call'.fired) = 1]_vars

\* a NoteOff for note, which region r sounds, under the latched pedal of a
\* region that is triggered Attack, First or Legato
PedalledNoteOff(r, call) ==
    /\ call.op = "midi_event"
    /\ call.msg.type = "NoteOff"
    /\ r.params.trigger \in {"Attack", "First", "Legato"}
    /\ r.sustain_pedal_pushed
    /\ \E k \in DOMAIN r.sample.voices :
          /\ r.sample.voices[k].note = call.msg.a
          /\ r.sample.voices[k].envelope_state.tag # "Release"

\* a CC 64 event with a value below 64
PedalUp(call) ==
    /\ call.op = "midi_event"
    /\ call.msg.type = "ControlChange"
    /\ call.msg.a = SustainPedalCC
    /\ call.msg.b < SustainPedalThreshold

\* the voices of after whose id is in ids are all in Release
AllReleased(after, ids) ==
    \A k \in DOMAIN after.voices :
        after.voices[k].id \in ids
            => after.voices[k].envelope_state.tag = "Release"

\* C12 as claimed: for a region with trigger Attack, First or Legato, while
\* the pedal is latched a NoteOff for a sounding note leaves the voices as
\* they are, and at the next CC 64 event with value < 64 the voices that
\* sounded the note are in Release.
C12_PedalDefersRelease ==
    [][\A i \in DOMAIN regions :
          /\ PedalledNoteOff(regions[i], last_call')
                => regions'[i].sample.voices = regions[i].sample.voices
          /\ PedalUp(last_call')
                => AllReleased(regions'[i].sample, regions[i].held_by_pedal)]_vars

\* C12 amended: for a region with trigger Attack, First or Legato, while the
\* pedal is latched a NoteOff for a sounding note leaves the voices as they
\* are; if the region's key_range covers the note, its voice is in Release
\* after the next CC 64 event with value < 64.
C12_PedalDefersReleaseOfCoveredNotes ==
    [][\A i \in DOMAIN regions :
          /\ PedalledNoteOff(regions[i], last_call')
                => regions'[i].sample.voices = regions[i].sample.voices
          /\ PedalUp(last_call')
                => AllReleased(regions'[i].sample,
                      {regions[i].sample.voices[k].id : k \in
                          {k \in DOMAIN regions[i].sample.voices :
                              /\ regions[i].sample.voices[k].id
                                     \in regions[i].held_by_pedal
                              /\ regions[i].params.key_range.lo # None
                              /\ regions[i].params.key_range.lo
                                     <= regions[i].sample.voices[k].note
                              /\ regions[i].sample.voices[k].note
                                     <= regions[i].params.key_range.hi}})]_vars

\* C12 happens: the pedal has gone up, and the voice of a Legato region that
\* the pedal held after its NoteOff has just entered Release.
C12_Witness ==
    /\ PedalUp(last_call)
    /\ regions[1].params.trigger = "Legato"
    /\ ~regions[1].sustain_pedal_pushed
    /\ \E k \in DOMAIN regions[1].sample.voices :
          /\ regions[1].sample.voices[k].id \in regions[1].held_by_pedal
          /\ regions[1].sample.voices[k].envelope_state = Release(0)
          /\ NoteRange_covering(regions[1].params.key_range,
                                regions[1].sample.voices[k].note)

\* region r is triggered Release or ReleaseKey
ReleaseTriggered(r) == r.params.trigger \in {"Release", "ReleaseKey"}

\* a NoteOff for a note that the key_range of region r covers
CoveredNoteOff(r, call) ==
    /\ call.op = "midi_event"
    /\ call.msg.type = "NoteOff"
    /\ r.params.key_range.lo # None
    /\ r.params.key_range.lo <= call.msg.a
    /\ call.msg.a <= r.params.key_range.hi

\* the player has one voice more, the last one for note
OneMoreVoice(before, after, note) ==
    /\ Len(after.voices) = Len(before.voices) + 1
    /\ after.voices[Len(after.voices)].note = note
    /\ after.voices[Len(after.voices)].envelope_state = AttackDecay(0)

\* C13: a region with trigger Release or ReleaseKey starts no voice on
\* NoteOn; on a NoteOff for a covered note n (of which a NoteOn was
\* accepted) it starts a voice for that same note n, with the gain computed
\* from the velocity of the most recent accepted NoteOn of n.
C13_ReleaseSoundsTheReleasedNote ==
    [][\A i \in DOMAIN regions :
          ReleaseTriggered(regions[i]) =>
             /\ (last_call'.op = "midi_event" /\ last_call'.msg.type = "NoteOn")
                   => regions'[i].sample.voices = regions[i].sample.voices
             /\ CoveredNoteOff(regions[i], last_call') =>
                   \A nv \in regions[i].accepted_note_ons :
                       nv[1] = last_call'.msg.a =>
                          /\ OneMoreVoice(regions[i].sample, regions'[i].sample,
                                          nv[1])
                          /\ regions'[i].gain.vel = nv[2]]_vars

\* C14: for a Release or ReleaseKey region, the attenuation applied when the
\* region sounds on note-off is rt_decay dB times the time processed between
\* the most recent covered note-on and that note-off, however much time was
\* processed before that note-on.
C14_DecaySinceLastNoteOn ==
    [][\A i \in DOMAIN regions :
          (/\ ReleaseTriggered(regions[i])
           /\ CoveredNoteOff(regions[i], last_call')
           /\ i \in last_call'.fired)
          => regions'[i].gain.rt
                = regions[i].params.rt_decay * regions[i].since_last_note_on]_vars

\* C15: pass_midi_msg returns true if and only if handling the event
\* started a new voice in that region.
C15_TrueIffVoiceStarted ==
    [][last_call'.op = "midi_event" =>
          \A i \in DOMAIN regions :
              i \in last_call'.fired
                  <=> Len(regions'[i].sample.voices)
                          > Len(regions[i].sample.voices)]_vars

\* C16: for a Release-triggered region, a CC 64 event starts a voice if and
\* only if it changes the pedal latch from down to up (value < 64 following
\* a value >= 64) and a last-note-on is stored.
C16_PedalUpSoundsReleaseRegion ==
    [][\A i \in DOMAIN regions :
          (/\ regions[i].params.trigger = "Release"
           /\ last_call'.op = "midi_event"
           /\ last_call'.msg.type = "ControlChange"
           /\ last_call'.msg.a = SustainPedalCC)
          => (Len(regions'[i].sample.voices) > Len(regions[i].sample.voices)
                <=> /\ regions[i].sustain_pedal_pushed
                    /\ last_call'.msg.b < SustainPedalThreshold
                    /\ regions[i].last_note_on # << >>)]_vars

\* a CC 64 event, of any value
PedalEvent(call) ==
    /\ call.op = "midi_event"
    /\ call.msg.type = "ControlChange"
    /\ call.msg.a = SustainPedalCC

\* a covered NoteOff makes region r sound the stored last_note_on
SoundsLastNoteOn(r, after, call) ==
    (CoveredNoteOff(r, call) /\ r.last_note_on # << >>)
        => /\ OneMoreVoice(r.sample, after.sample, r.last_note_on[1])
           /\ after.gain.vel = r.last_note_on[2]

\* C17 as claimed: for a ReleaseKey region, sustain-pedal events (CC 64, any
\* value, in any pedal state) never start a voice, and a covered NoteOff
\* with a stored last-note-on starts its voice whether or not the pedal is
\* latched.
C17_ReleaseKeyIgnoresPedal ==
    [][\A i \in DOMAIN regions :
          regions[i].params.trigger = "ReleaseKey" =>
             /\ PedalEvent(last_call')
                   => Len(regions'[i].sample.voices)
                          = Len(regions[i].sample.voices)
             /\ SoundsLastNoteOn(regions[i], regions'[i], last_call')]_vars

\* C17 amended: for a ReleaseKey region that has no on_ccs range for
\* controller 64, CC 64 events (any value, in any pedal state) never start
\* a voice; for every ReleaseKey region a covered NoteOff with a stored
\* last-note-on starts its voice whether or not the pedal is latched.
C17_ReleaseKeyIgnoresPedalLatch ==
    [][\A i \in DOMAIN regions :
          regions[i].params.trigger = "ReleaseKey" =>
             /\ (/\ PedalEvent(last_call')
                 /\ SustainPedalCC \notin DOMAIN regions[i].params.on_ccs)
                   => Len(regions'[i].sample.voices)
                          = Len(regions[i].sample.voices)
             /\ SoundsLastNoteOn(regions[i], regions'[i], last_call')]_vars

\* C17 happens: under the latched pedal, a NoteOff has made a ReleaseKey
\* region without controller ranges sound its stored note, the only voice
\* it holds (the pedal going down started none).
C17_Witness ==
    /\ regions[1].params.trigger = "ReleaseKey"
    /\ regions[1].params.on_ccs = << >>
    /\ regions[1].sustain_pedal_pushed
    /\ last_call.op = "midi_event"
    /\ last_call.msg.type = "NoteOff"
    /\ last_call.fired = {1}
    /\ Len(regions[1].sample.voices) = 1
    /\ regions[1].sample.voices[1].envelope_state = AttackDecay(0)

\* C18: whenever a region has a non-releasing voice for note n, a further
\* NoteOn for n leaves the region's voices unchanged, whatever other voices
\* the region holds.
C18_NoteOnOfSoundingNoteIgnored ==
    [][\A i \in DOMAIN regions :
          (/\ last_call'.op = "midi_event"
           /\ last_call'.msg.type = "NoteOn"
           /\ \E k \in DOMAIN regions[i].sample.voices :
                 /\ regions[i].sample.voices[k].note = last_call'.msg.a
                 /\ regions[i].sample.voices[k].envelope_state.tag # "Release")
          => regions'[i].sample.voices = regions[i].sample.voices]_vars

\* C19: a NoteOn with velocity 0 has the same effect on every region as a
\* NoteOff for the same note: the voices and the notes queued for the
\* pedal's release are what the NoteOff leaves.
C19_NoteOnVelocityZeroIsNoteOff ==
    [][(/\ last_call'.op = "midi_event"
        /\ last_call'.msg.type = "NoteOn"
        /\ last_call'.msg.b = 0)
       => \A i \in DOMAIN regions :
             LET off == pass_midi_msg(regions[i], NoteOff(last_call'.msg.a, 0),
                                      last_call'.random_value, << >>).r
             IN  /\ regions'[i].sample.voices = off.sample.voices
                 /\ regions'[i].notes_for_release_trigger
                        = off.notes_for_release_trigger]_vars

\* the key_range of region r is disabled
KeysDisabled(r) == r.params.key_range.lo = None \/ r.params.key_range.hi = None

\* C20: a region whose key_range is disabled starts a voice on no event
\* but a ControlChange whose value one of its on_ccs ranges covers.
C20_KeylessRegionSoundsOnControllersOnly ==
    [][\A i \in DOMAIN regions :
          (/\ KeysDisabled(regions[i])
           /\ Len(regions'[i].sample.voices) > Len(regions[i].sample.voices))
          => /\ last_call'.op = "midi_event"
             /\ last_call'.msg.type = "ControlChange"
             /\ last_call'.msg.a \in DOMAIN regions[i].params.on_ccs
             /\ regions[i].params.on_ccs[last_call'.msg.a].lo <= last_call'.msg.b
             /\ last_call'.msg.b <= regions[i].params.on_ccs[last_call'.msg.a].hi]_vars

\* C20 happens: a region without keys that a controller has made sound has
\* been sent a NoteOn under the latched pedal, and holds the controller's
\* voice only.
C20_Witness ==
    /\ KeysDisabled(regions[1])
    /\ last_call.op = "midi_event"
    /\ last_call.msg.type = "NoteOn"
    /\ regions[1].sustain_pedal_pushed
    /\ regions[1].other_notes_on # {}
    /\ Len(regions[1].sample.voices) = 1

\* on_ccs of region r holds a range for controller c with both bounds set
\* and lo <= w <= hi
ControllerCovered(r, c, w) ==
    /\ c \in DOMAIN r.params.on_ccs
    /\ r.params.on_ccs[c].lo # None
    /\ r.params.on_ccs[c].hi # None
    /\ r.params.on_ccs[c].lo <= w
    /\ w <= r.params.on_ccs[c].hi

\* C21: a ControlChange(c, w) makes a region start a voice at
\* pitch_keycenter with maximum velocity and return true if and only if
\* on_ccs holds a range for controller c with both bounds set and
\* lo <= w <= hi.
C21_ControllerSoundsIffCovered ==
    [][(last_call'.op = "midi_event" /\ last_call'.msg.type = "ControlChange")
       => \A i \in DOMAIN regions :
             (/\ i \in last_call'.fired
              /\ OneMoreVoice(regions[i].sample, regions'[i].sample,
                              regions[i].params.pitch_keycenter)
              /\ regions'[i].gain.vel = VelocityMax)
             <=> ControllerCovered(regions[i], last_call'.msg.a,
                                   last_call'.msg.b)]_vars

\* C21 happens: a region with more than one controller range, one of them
\* without upper bound, has sounded on a ControlChange at the upper end of
\* a range, and holds that voice only.
C21_Witness ==
    /\ last_call.op = "midi_event"
    /\ last_call.msg.type = "ControlChange"
    /\ Cardinality(DOMAIN regions[1].params.on_ccs) > 1
    /\ \E c \in DOMAIN regions[1].params.on_ccs : regions[1].params.on_ccs[c].hi = None
    /\ last_call.msg.a \in DOMAIN regions[1].params.on_ccs
    /\ last_call.msg.b = regions[1].params.on_ccs[last_call.msg.a].hi
    /\ last_call.fired = {1}
    /\ Len(regions[1].sample.voices) = 1
    /\ regions[1].sample.voices[1].note = regions[1].params.pitch_keycenter

\* C22: process completes without an out-of-range or underflowing table
\* index for every block length n with 0 <= n <= max_block_length and
\* every reachable voice state.
C22_ProcessIndicesInRange ==
    \A n \in 0..conf.max_block_length :
        /\ process_completes(conf, player, n)
        /\ Engine_process_completes(conf, regions, n)

\* the ids of the voices of player s
VoiceIds(s) == {s.voices[i].id : i \in DOMAIN s.voices}

\* C23: for any reachable player state and any N, K with
\* N * K <= max_block_length, one process call of N * K frames applies the
\* same envelope values to the same frames and leaves the same voices as N
\* consecutive process calls of K frames.
C23_BlockSizeIndependence ==
    \A N \in 1..conf.max_block_length, K \in 1..conf.max_block_length :
        N * K <= conf.max_block_length
        => /\ \A id \in VoiceIds(player) :
                 block_gains(conf, player, id, N * K)
                     = repeated_gains(conf, player, id, N, K)
           /\ process(conf, player, N * K).voices
                 = repeated_process(conf, player, N, K).voices

\* no region of the engine has a voice
AllSilent == \A i \in DOMAIN regions : ~is_playing(regions[i].sample)

\* C24: after a NoteOn followed by the NoteOff of the same note and no
\* further events, finitely many process calls with non-empty blocks leave
\* the engine without voices.
C24_NoteOnNoteOffDrains ==
    (last_call.op = "midi_event" /\ last_call.msg.type = "NoteOff") ~> AllSilent

\* C24 happens: blocks were processed after the NoteOff while a voice was
\* sounding, and the engine is silent now.
C24_Witness ==
    /\ last_call.op = "process"
    /\ AllSilent
    /\ \E i \in DOMAIN regions :
          /\ regions[i].last_note_on # << >>
          /\ regions[i].time_since_note_on > 1

\* the value of opcode op lies outside the domain documented for its key
OutsideDomain(op) ==
    CASE op.key \in {"lokey", "hikey", "on_locc", "on_hicc"} ->
            op.value < -1 \/ op.value > 127
      [] op.key \in {"key", "lovel", "hivel"} ->
            op.value < 0 \/ op.value > 127
      [] OTHER -> FALSE

\* C25: every integer outside the documented domain given to lokey, hikey,
\* key, lovel, hivel, on_loccN or on_hiccN is rejected with an out-of-range
\* error and leaves the region data unchanged.
C25_OutOfDomainRejected ==
    [][(last_call'.op = "parse_opcode" /\ sfz.header # "start"
        /\ OutsideDomain(sfz'.opcode))
       => /\ sfz'.result = "OutOfRange"
          /\ sfz'.section = sfz.section]_vars

\* C26: a lorand or hirand value outside [0.0, 1.0] is rejected with an
\* out-of-range error and leaves the random range unchanged.
C26_RandomOutOfRangeRejected ==
    [][(/\ last_call'.op = "parse_opcode"
        /\ sfz.header # "start"
        /\ sfz'.opcode.key \in {"lorand", "hirand"}
        /\ (sfz'.opcode.value < 0 \/ sfz'.opcode.value > Quarters))
       => /\ sfz'.result = "OutOfRange"
          /\ sfz'.section.random_range = sfz.section.random_range]_vars

\* C27: for every valid key value k (0..127) the opcode key=k succeeds and
\* sets key_range.lo = key_range.hi = k and pitch_keycenter = k, whatever
\* key range the region inherited from its group or set earlier.
C27_KeySetsRangeAndCenter ==
    [][(/\ last_call'.op = "parse_opcode"
        /\ sfz.header # "start"
        /\ sfz'.opcode.key = "key"
        /\ sfz'.opcode.value \in 0..127)
       => /\ sfz'.result = "parsing"
          /\ sfz'.section.key_range = [lo |-> sfz'.opcode.value,
                                       hi |-> sfz'.opcode.value]
          /\ sfz'.section.pitch_keycenter = sfz'.opcode.value]_vars

\* the RegionData the opcodes of text make of region, one after the other
RECURSIVE apply_text(_, _)
apply_text(region, text) ==
    IF text = << >> THEN region
    ELSE apply_text(apply_opcode(region, Head(text)).val, Tail(text))

\* C28: each parsed region equals the defaults overridden by the opcodes of
\* the most recent <group> header and then by the region's own opcodes;
\* nothing of an earlier <group> or of an earlier region is in it.
C28_RegionIsGroupThenOwnOpcodes ==
    sfz # NoText /\ sfz.result = "Ok"
    => \A i \in DOMAIN sfz.regions :
          sfz.regions[i]
              = apply_text(apply_text(DefaultRegionData, sfz.texts[i].group),
                           sfz.texts[i].own)

\* C28 happens: a text of two groups, the first with opcodes the second
\* lacks, has been parsed, and the region after the second group has
\* opcodes of its own.
C28_Witness ==
    /\ sfz # NoText
    /\ sfz.result = "Ok"
    /\ Len(sfz.group_texts) = 2
    /\ sfz.group_texts[1] # << >>
    /\ sfz.group_texts[2] = << >>
    /\ Len(sfz.regions) = 1
    /\ sfz.texts[1].group = sfz.group_texts[2]
    /\ sfz.texts[1].own # << >>
    /\ sfz.regions[1].group = 0

\* C29: in the LV2 host a newly loaded engine receives no MIDI event and
\* renders no audio until the old engine's fadeout_finished() has returned
\* true and the engines have been swapped: a run that finds the fade-out
\* unfinished makes no call on the new engine.
C29_NewEngineIdleUntilSwap ==
    [][(/\ last_call'.op = "run"
        /\ new_engine # << >>
        /\ ~fadeout_finished(regions))
       => \A k \in DOMAIN last_call'.calls :
             last_call'.calls[k].engine # "new_engine"]_vars

\* other_notes_on of region r after the event msg, were it the set of the
\* notes outside key_range whose latest event is a NoteOn
other_notes_after(r, msg) ==
    IF msg.type \in {"NoteOn", "NoteOff"}
       /\ ~NoteRange_covering(r.params.key_range, msg.a)
    THEN IF msg.type = "NoteOn"
         THEN r.other_notes_on \cup {msg.a}
         ELSE r.other_notes_on \ {msg.a}
    ELSE r.other_notes_on

\* C30: after any event sequence a region's other_notes_on is the set of
\* the notes outside key_range whose latest event was a NoteOn, whatever
\* the velocities and the random draws: every NoteOn outside the range adds
\* its note, every NoteOff outside removes it, nothing else changes the set.
C30_OtherNotesAreHeldNotes ==
    [][\A i \in DOMAIN regions :
          regions'[i].other_notes_on
              = IF last_call'.op = "midi_event"
                THEN other_notes_after(regions[i], last_call'.msg)
                ELSE regions[i].other_notes_on]_vars

\* C31: a First region fires on a covered NoteOn only if no other key at all
\* is held, and a Legato region fires only if some other key is held; a key
\* is held from its NoteOn until its NoteOff, inside or outside key_range.
C31_FirstLegatoLookAtAllHeldKeys ==
    [][(/\ last_call'.op = "midi_event"
        /\ last_call'.msg.type = "NoteOn"
        /\ last_call'.fired # {})
       => /\ regions[1].params.trigger = "First"
             => keyboard.held \ {last_call'.msg.a} = {}
          /\ regions[1].params.trigger = "Legato"
             => keyboard.held \ {last_call'.msg.a} # {}]_vars


\* C32: when the sustain pedal is released, only voices whose key is no
\* longer held enter Release; a note whose key is held at that moment (its
\* latest note event is a NoteOn) keeps sounding.  Read of the regions that
\* a NoteOn sounds (a release-triggered region starts voices on pedal-up).
C32_PedalUpSparesHeldKeys ==
    [][(/\ last_call'.op = "midi_event"
        /\ last_call'.msg.type = "ControlChange"
        /\ last_call'.msg.a = SustainPedalCC
        /\ last_call'.msg.b < SustainPedalThreshold
        /\ regions[1].params.trigger \notin {"Release", "ReleaseKey"})
       => \A k \in DOMAIN regions[1].sample.voices :
              \A j \in DOMAIN regions'[1].sample.voices :
                  (/\ regions'[1].sample.voices[j].id = regions[1].sample.voices[k].id
                   /\ regions[1].sample.voices[k].envelope_state.tag # "Release"
                   /\ regions'[1].sample.voices[j].envelope_state.tag = "Release")
                  => regions[1].sample.voices[k].note \notin keyboard.held]_vars

\* C33: a Release or ReleaseKey region starts a voice on a covered NoteOff
\* only if the most recent NoteOn before it was accepted (inside key_range,
\* vel_range and random_range); a NoteOff that follows a rejected NoteOn
\* starts nothing, whatever was played earlier.
C33_ReleaseNeedsAcceptedLatestNoteOn ==
    [][(/\ last_call'.op = "midi_event"
        /\ last_call'.msg.type = "NoteOff"
        /\ regions[1].params.trigger \in {"Release", "ReleaseKey"}
        /\ NoteRange_covering(regions[1].params.key_range, last_call'.msg.a)
        /\ last_call'.fired # {})
       => keyboard.latest = "accepted"]_vars

\* the voices of a note that are in AttackDecay or Sustain
LiveVoices(s, note) ==
    {k \in DOMAIN s.voices :
        /\ s.voices[k].note = note
        /\ s.voices[k].envelope_state.tag \in {"AttackDecay", "Sustain"}}

\* C34: after any sequence of operations on a player, at most one voice per
\* note is in AttackDecay or Sustain: note_on moves every earlier
\* non-releasing voice of the same note into Release before it appends the
\* new voice.
C34_OneLiveVoicePerNote ==
    \A note \in conf.notes : Cardinality(LiveVoices(player, note)) <= 1

\* C34 witness: a note_on has just retriggered a note: an earlier voice of
\* the note is releasing and the new voice, the last one, is in AttackDecay.
C34_Witness ==
    /\ last_call.op = "note_on"
    /\ Len(player.voices) >= 2
    /\ \E k \in 1..(Len(player.voices) - 1) :
           /\ player.voices[k].note = player.voices[Len(player.voices)].note
           /\ player.voices[k].envelope_state = Release(0)
    /\ player.voices[Len(player.voices)].envelope_state = AttackDecay(0)

\* the buffer's length when the turn of voice i comes in Sample::process
len_at_voice(c, s, i) ==
    resized_len(c, grown_len(c, s.sample_data_len, SubSeq(s.voices, 1, i - 1)),
                s.voices[i])

\* C35: for every block length n <= max_block_length, every playback ratio
\* > 0 and every reachable voice position, each sample-buffer index read by
\* the cubic interpolator during process lies within the sample buffer.
C35_CubicReadsInBuffer ==
    \A n \in 0..conf.max_block_length :
        \A i \in DOMAIN player.voices :
            \A j \in sample_reads(len_at_voice(conf, player, i), player.voices[i], n) :
                0 <= j /\ j < len_at_voice(conf, player, i)

\* C35 witness: the buffer has been resized by an earlier process call, and
\* a voice is about to read behind the length Sample::new gave the buffer.
C35_Witness ==
    /\ player.sample_data_len > Sample(conf).sample_data_len
    /\ \E i \in DOMAIN player.voices :
           \E j \in sample_reads(len_at_voice(conf, player, i), player.voices[i],
                                 conf.max_block_length) :
               j >= Sample(conf).sample_data_len

\* (A + H + 2 * D) * sample_rate of the generator in use, in frames
ads_frames(c) == (c.gen.attack + c.gen.hold + 2 * c.gen.decay) * c.samplerate

\* C36: the attack/decay envelope table has exactly
\* ceil((A + H + 2*D) * sample_rate / B) * B + B entries, B the maximum block
\* length, for every admissible A, H, D and sample rate.
C36_TableLengthIsCeilPlusBlock ==
    ads_envelope_len(conf)
        = CeilDiv(ads_frames(conf), conf.max_block_length) * conf.max_block_length
              + conf.max_block_length

\* C36 amended: the table has ceil((x + 1) / B) * B + B entries with
\* x = (A + H + 2*D) * sample_rate a whole number of frames: the blocks up to
\* the first one that ends behind frame x, and one more.
C36_TableLengthIsNextBlockPlusBlock ==
    ads_envelope_len(conf)
        = CeilDiv(ads_frames(conf) + 1, conf.max_block_length) * conf.max_block_length
              + conf.max_block_length

\* C36 witness: B divides x, and after a process call a voice is still in
\* AttackDecay at an index in the block the shorter table would not have.
C36_Witness ==
    /\ last_call.op = "process"
    /\ ads_frames(conf) % conf.max_block_length = 0
    /\ \E i \in DOMAIN player.voices :
           /\ player.voices[i].envelope_state.tag = "AttackDecay"
           /\ player.voices[i].envelope_state.pos >= ads_frames(conf)

\* C37: through the player's operations the envelope lookup is never invoked
\* for a voice whose state is Inactive: a voice that becomes Inactive is
\* removed in the same process call.  process looks the envelope up once for
\* every voice it finds in the list.
C37_NoLookupWhileInactive ==
    [][last_call'.op = "process"
       => \A i \in DOMAIN player.voices :
              player.voices[i].envelope_state.tag # "Inactive"]_vars

\* C37 witness: after a process call a releasing voice stands at the index
\* from which the next frame takes it to Inactive.
C37_Witness ==
    /\ last_call.op = "process"
    /\ \E i \in DOMAIN player.voices :
           /\ player.voices[i].envelope_state.tag = "Release"
           /\ player.voices[i].envelope_state.pos > 0
           /\ player.voices[i].position + player.voices[i].frequency
                  < 2 * real_sample_length(conf)
           /\ update_state(conf, player.voices[i].envelope_state,
                           player.voices[i].envelope_state.pos + 1) = Inactive

\* the opcodes of the section being read that set key
SetIn(p, key) ==
    {i \in DOMAIN p.section_text : p.section_text[i].key = key}

\* every lorand and hirand of the section being read lies in [0.0, 1.0]
RandomInDomain(p) ==
    \A i \in SetIn(p, "lorand") \cup SetIn(p, "hirand") :
        p.section_text[i].value \in 0..Quarters

\* C38: after any sequence of range-setter calls that return Ok, every key,
\* velocity, controller and random range with both bounds set satisfies
\* lo <= hi.  The random range is looked at when the section has set both
\* lorand and hirand, to values of [0.0, 1.0].
C38_SetRangesAreOrdered ==
    (sfz # NoText /\ sfz.result = "parsing" /\ sfz.header # "start")
    => /\ (sfz.section.key_range.lo # None /\ sfz.section.key_range.hi # None)
          => sfz.section.key_range.lo <= sfz.section.key_range.hi
       /\ sfz.section.vel_range.lo <= sfz.section.vel_range.hi
       /\ \A c \in DOMAIN sfz.section.on_ccs :
              (sfz.section.on_ccs[c].lo # None /\ sfz.section.on_ccs[c].hi # None)
              => sfz.section.on_ccs[c].lo <= sfz.section.on_ccs[c].hi
       /\ (/\ SetIn(sfz, "lorand") # {}
           /\ SetIn(sfz, "hirand") # {}
           /\ RandomInDomain(sfz))
          => sfz.section.random_range.lo <= sfz.section.random_range.hi

\* C39: the engine state after an event is a function of the prior state,
\* the event and the random draw only: it is the same for every iteration
\* order of the activated-group set and of the pending-release note set.
C39_EventIgnoresIterationOrders ==
    [][last_call'.op = "midi_event"
       => \A order \in SetOrders(PendingNotes(regions)) :
              \A group_order \in
                     SetOrders(midi_event_passed(regions, last_call'.msg,
                                                 last_call'.random_value,
                                                 order).activated) :
                  midi_event(regions, last_call'.msg, last_call'.random_value,
                             order, group_order).regions = regions']_vars

\* C39 witness: an event has sounded two regions of different groups, walked
\* the two groups, and silenced a voice of the third region.
C39_Witness ==
    /\ last_call.op = "midi_event"
    /\ Len(last_call.group_order) = 2
    /\ Len(regions) = 3
    /\ \E k \in DOMAIN regions[3].sample.voices :
           regions[3].sample.voices[k].envelope_state = Release(0)
=============================================================================
